---------------------------- MODULE Spec2Model ----------------------------
(***************************************************************************)
(* A model of Homer's execution engine: the per-device loop of             *)
(* Homer._execute with its retry policy, the two transport sessions        *)
(* (junos and json_rpc) with their commit and commit_check paths, the      *)
(* interactive approval and the DiffStore singleton.                       *)
(*                                                                         *)
(* Texts are sequences of characters; an ANSI escape sequence is one       *)
(* element ("ESC[32m").  Python's None/True/False returned by              *)
(* DiffStore.status are the strings "None"/"True"/"False".  Exceptions are *)
(* named by their class; "none" means no exception is in flight.           *)
(***************************************************************************)
EXTENDS Integers, Sequences, FiniteSets, TLC

(***************************************************************************)
(* Bounds of the model.                                                    *)
(***************************************************************************)
NumDevices == 2
MaxDiff == 2
MaxText == 4
NumWorkers == 2

(***************************************************************************)
(* Program constants.                                                      *)
(***************************************************************************)
TIMEOUT_ATTEMPTS == 3
DIFF_EXIT_CODE == 99
DIFF_ADDED_CODE == 32
DIFF_REMOVED_CODE == 31
DIFF_MOVED_CODE == 33

Devs == 1..NumDevices
Transports == {"junos", "json_rpc"}
Modes == {"generate", "diff", "commit"}

(***************************************************************************)
(* Exceptions (homer/exceptions.py): every Homer exception derives from    *)
(* HomerError.                                                             *)
(***************************************************************************)
HomerErrors ==
    {"HomerError", "HomerAbortError", "HomerTimeoutError", "HomerConnectError", "HomerDiffError"}

(***************************************************************************)
(* transports/__init__.py: color_diff.                                     *)
(***************************************************************************)
NL == "\n"

Esc(code) ==
    IF code = DIFF_ADDED_CODE THEN "ESC[32m"
    ELSE IF code = DIFF_REMOVED_CODE THEN "ESC[31m"
    ELSE IF code = DIFF_MOVED_CODE THEN "ESC[33m"
    ELSE "ESC[39m"

\* str.splitlines() ends a line at '\n', at '\r' and at '\r\n'; CR stands for
\* the line boundaries other than '\n'.
CR == "\r"
LineBreaks == {NL, CR}

FirstNL(s) ==
    IF \E i \in 1..Len(s) : s[i] \in LineBreaks
    THEN CHOOSE i \in 1..Len(s) : s[i] \in LineBreaks /\ \A j \in 1..(i - 1) : s[j] \notin LineBreaks
    ELSE 0

RECURSIVE splitlines(_)
splitlines(s) ==
    IF s = <<>> THEN <<>>
    ELSE LET i == FirstNL(s)
             n == IF i # 0 /\ i < Len(s) /\ s[i] = CR /\ s[i + 1] = NL THEN i + 2 ELSE i + 1
         IN IF i = 0 THEN <<s>>
            ELSE <<SubSeq(s, 1, i - 1)>> \o splitlines(SubSeq(s, n, Len(s)))

\* Variant of color_line: the codes of added and removed lines exchanged.
color_line_swapped(line) ==
    LET code == IF line # <<>> /\ line[1] = "+" THEN DIFF_REMOVED_CODE
                ELSE IF line # <<>> /\ line[1] = "-" THEN DIFF_ADDED_CODE
                ELSE IF line # <<>> /\ line[1] = "!" THEN DIFF_MOVED_CODE
                ELSE 0
    IN IF code # 0 THEN <<Esc(code)>> \o line \o <<Esc(39)>> ELSE line

color_line(line) ==
    LET code == IF line # <<>> /\ line[1] = "+" THEN DIFF_ADDED_CODE
                ELSE IF line # <<>> /\ line[1] = "-" THEN DIFF_REMOVED_CODE
                ELSE IF line # <<>> /\ line[1] = "!" THEN DIFF_MOVED_CODE
                ELSE 0
    IN IF code # 0 THEN <<Esc(code)>> \o line \o <<Esc(39)>> ELSE line

RECURSIVE join(_)
join(lines) ==
    IF lines = <<>> THEN <<>>
    ELSE IF Len(lines) = 1 THEN lines[1]
    ELSE lines[1] \o <<NL>> \o join(Tail(lines))

\* A color_diff that returns the diff as the device reported it.
color_diff_plain(diff) == diff

color_diff(diff) ==
    LET lines == [i \in 1..Len(splitlines(diff)) |-> color_line(splitlines(diff)[i])]
        colored_diff == join(lines)
    IN IF diff # <<>> /\ diff[Len(diff)] = NL THEN colored_diff \o <<NL>> ELSE colored_diff

(***************************************************************************)
(* The raw diff texts a device may report: RawDiff(0) is the empty diff,   *)
(* the others are one-line diffs with the markers '+', '-', '!' and ' '.   *)
(***************************************************************************)
Marker(i) == <<"+", "-", "!", " ">>[((i - 1) % 4) + 1]

RawDiff(i) ==
    IF i = 0 THEN <<>>
    ELSE <<Marker(i)>> \o [k \in 1..(1 + ((i - 1) \div 4)) |-> "a"] \o <<NL>>

RawDiffs == {RawDiff(i) : i \in 0..MaxDiff}
Diffs == {color_diff(r) : r \in RawDiffs}

(***************************************************************************)
(* diff.py: the DiffStore singleton.  exists = FALSE is _instance = None.  *)
(***************************************************************************)
NoStore == [exists |-> FALSE, approved |-> {}, rejected |-> {}]

DiffStore(s) ==
    IF ~s.exists THEN [exists |-> TRUE, approved |-> {}, rejected |-> {}] ELSE s

\* Variant of reset: the instance and its data are kept.
reset_keep(s) == s

reset(s) == NoStore

\* Variants of approve: the decision is not stored; the rejected set is not
\* consulted.
approve_forget(s, diff) ==
    IF diff \in s.rejected THEN [store |-> s, exc |-> "HomerDiffError"]
    ELSE [store |-> s, exc |-> "none"]

approve_nocheck(s, diff) ==
    [store |-> [s EXCEPT !.approved = @ \cup {diff}], exc |-> "none"]

approve(s, diff) ==
    IF diff \in s.approved THEN [store |-> s, exc |-> "none"]
    ELSE IF diff \in s.rejected THEN [store |-> s, exc |-> "HomerDiffError"]
    ELSE [store |-> [s EXCEPT !.approved = @ \cup {diff}], exc |-> "none"]

\* Variant of reject: an approved diff is moved to the rejected set before the
\* error is raised.
reject_overwrite(s, diff) ==
    IF diff \in s.rejected THEN [store |-> s, exc |-> "none"]
    ELSE IF diff \in s.approved
         THEN [store |-> [s EXCEPT !.approved = @ \ {diff}, !.rejected = @ \cup {diff}],
               exc |-> "HomerDiffError"]
    ELSE [store |-> [s EXCEPT !.rejected = @ \cup {diff}], exc |-> "none"]

reject(s, diff) ==
    IF diff \in s.rejected THEN [store |-> s, exc |-> "none"]
    ELSE IF diff \in s.approved THEN [store |-> s, exc |-> "HomerDiffError"]
    ELSE [store |-> [s EXCEPT !.rejected = @ \cup {diff}], exc |-> "none"]

\* Variant of status: the approved set is not consulted.
status_rejected_only(s, diff) ==
    IF diff \in s.rejected THEN "False" ELSE "None"

status(s, diff) ==
    IF diff \in s.rejected THEN "False"
    ELSE IF diff \in s.approved THEN "True"
    ELSE "None"

(***************************************************************************)
(* interactive.py: ask_approval.  isatty is sys.stdout.isatty(), inputs    *)
(* the lines the operator types; at most two are read.                     *)
(***************************************************************************)
ApprovalStatus == {"yes", "no", "all", "none"}
Inputs == ApprovalStatus \cup {"invalid"}

ask_approval(isatty, inputs) ==
    IF ~isatty THEN [exc |-> "HomerError", answer |-> "notty"]
    ELSE IF inputs[1] \in ApprovalStatus THEN [exc |-> "none", answer |-> inputs[1]]
    ELSE IF inputs[2] \in ApprovalStatus THEN [exc |-> "none", answer |-> inputs[2]]
    ELSE [exc |-> "HomerError", answer |-> "invalid"]


(***************************************************************************)
(* The state.                                                              *)
(*   Homer._execute: mode (the callback), idx (the device of the query     *)
(*   being processed; the devices 1..NumDevices are the result of the      *)
(*   query, in its order), attempt, successes, diffs, ret (the exit        *)
(*   status), pc.                                                          *)
(*   The device being processed: its transport, the diff it reports while  *)
(*   the new configuration is not applied (rawIdx), and devState: "old"    *)
(*   (running the old configuration), "pending" (commit accepted, waiting  *)
(*   for its confirmation, reverted when the confirm timeout expires),     *)
(*   "new" (commit confirmed).                                             *)
(*   The current session: session, sdiff (the colored diff it computed),   *)
(*   rpcs (the requests sent on it, in order), closeCalls, exc and result  *)
(*   (the exception or value the callback ends with), prompts, answer and  *)
(*   seen (ask_approval calls, its answer, the status the store gave; seen *)
(*   is "empty" when commit() found the diff empty, "-" before), failure   *)
(*   (the exception a request made in the body of the with statement       *)
(*   raised, or the one that made the connection fail; "none" without).    *)
(*   History of the current device: calls (callback invocations), raised   *)
(*   (those that ended with an exception _execute retries), commitCount    *)
(*   (commit requests sent).  History of the run, per diff text: the       *)
(*   sessions that computed it and sent the commit request                 *)
(*   (committedDiffs) or ended without (skippedDiffs); boundCommitted and  *)
(*   boundSkipped are the same for the sessions decided for all devices:   *)
(*   by an 'all' or 'none' answer, or after one was given for the diff.    *)
(*   call is the last DiffStore method called directly on the store.       *)
(*   workers: for each thread calling the store, the method it is in (op), *)
(*   its argument, the statement it is at and the exception it ended with. *)
(*   outdir: the entries of the output directory (base_paths.output).      *)
(*   hc: the HierarchicalConfig instance, the devices' metadata and the    *)
(*   map its last get() returned, when get() is called directly.           *)
(*   devices: the Devices catalog and what its last query() gave, when     *)
(*   query() is called directly.                                           *)
(*   colored: a diff text and what color_diff() returned for it, when      *)
(*   color_diff() is called directly.                                      *)
(***************************************************************************)
VARIABLES mode, pc, idx, attempt, successes, diffs, ret,
          transport, rawIdx, devState,
          store,
          session, failure, sdiff, rpcs, closeCalls, exc, result, prompts, answer, seen,
          calls, raised, commitCount,
          committedDiffs, skippedDiffs, boundCommitted, boundSkipped,
          call, workers,
          outdir, hc, devices, colored

orchVars == <<mode, idx, attempt, successes, diffs, ret>>
envVars == <<transport, rawIdx, devState>>
sessVars == <<session, failure, sdiff, rpcs, closeCalls, exc, result, prompts, answer, seen>>
decisions == <<committedDiffs, skippedDiffs, boundCommitted, boundSkipped>>
histVars == <<calls, raised, commitCount, decisions>>
vars == <<pc, orchVars, envVars, store, sessVars, histVars, call, workers, outdir, hc, devices, colored>>

\* No color_diff() call of its own is made in a run of generate, diff or commit.
NoText == "-"

Workers == 1..NumWorkers
IdleWorker == [pc |-> "idle", op |-> "-", diff |-> <<>>, exc |-> "none"]

NoneDiff == <<"None">>
EmptyDiff == <<>>
DiffKeys == Diffs \cup {NoneDiff}
NoResult == [success |-> FALSE, diff |-> <<"unset">>]
Result(success, diff) == [success |-> success, diff |-> diff]

CommitRpcs == {"commit", "jr_set"}
ConfirmRpcs == {"commit_check", "jr_accept"}

Has(log, names) == \E i \in 1..Len(log) : log[i] \in names
Count(log, names) == Cardinality({i \in 1..Len(log) : log[i] \in names})

(***************************************************************************)
(* Homer._execute, lines 363-374: the retry loop around the callback.      *)
(***************************************************************************)
Retried == {"HomerTimeoutError", "HomerConnectError"}

\* Variants of execute_attempt: one attempt too many; any exception retried.
execute_attempt_extra(e, att) ==
    IF e = "none" THEN "record"
    ELSE IF e \in Retried
         THEN IF att <= TIMEOUT_ATTEMPTS THEN "retry" ELSE "exhausted"
         ELSE "propagate"

execute_attempt_any(e, att) ==
    IF e = "none" THEN "record"
    ELSE IF att < TIMEOUT_ATTEMPTS THEN "retry" ELSE "exhausted"

\* Variant of execute_attempt: a while loop that retries until the callback
\* returns.
execute_attempt_forever(e, att) ==
    IF e = "none" THEN "record"
    ELSE IF e \in Retried THEN "retry"
    ELSE "propagate"

\* What the try/except/else of one attempt does with the callback's outcome.
execute_attempt(e, att) ==
    IF e = "none" THEN "record"
    ELSE IF e \in Retried
         THEN IF att < TIMEOUT_ATTEMPTS THEN "retry" ELSE "exhausted"
         ELSE "propagate"

parse_results(succ) == IF succ.failed # <<>> THEN 1 ELSE 0

\* A diff() that reports the diff code whenever a diff was found.
diff_status_any(succ, dfs) ==
    IF \E k \in DiffKeys : k # NoneDiff /\ k # EmptyDiff /\ dfs[k] # <<>>
    THEN DIFF_EXIT_CODE ELSE parse_results(succ)

diff_status(succ, dfs) ==
    LET has_diff == \E k \in DiffKeys : k # NoneDiff /\ k # EmptyDiff /\ dfs[k] # <<>>
        r == parse_results(succ)
    IN IF r = 0 /\ has_diff THEN DIFF_EXIT_CODE ELSE r

(***************************************************************************)
(* Homer._device_commit, lines 256-272: what the callback makes of the     *)
(* way connection.commit() ended.                                          *)
(***************************************************************************)
is_retry(att) == att # 1

device_commit(e) ==
    IF e = "none" THEN [exc |-> "none", result |-> Result(TRUE, EmptyDiff)]
    ELSE IF e = "HomerTimeoutError" THEN [exc |-> e, result |-> NoResult]
    ELSE [exc |-> "none", result |-> Result(FALSE, EmptyDiff)]

(***************************************************************************)
(* connected_device: the finally clause calls close() however the body     *)
(* ended.                                                                  *)
(***************************************************************************)
\* Variant: no finally clause, close() only after a body that returned.
connected_device_exit_nofinally(t, e) ==
    IF e # "none" THEN "returned" ELSE IF t = "junos" THEN "j_unlock" ELSE "r_close"

connected_device_exit(t, e) == IF t = "junos" THEN "j_unlock" ELSE "r_close"

(***************************************************************************)
(* ConnectedDevice.commit, from the diff to the commit: the approval.      *)
(* next is "return", "raise" or "commit"; rollback tells whether           *)
(* _rollback was called.                                                   *)
(***************************************************************************)
Decision(s, next, e, rb, asked, ans, st) ==
    [store |-> s, next |-> next, exc |-> e, rollback |-> rb, asked |-> asked,
     answer |-> ans, seen |-> st]

\* Variant of junos_commit_approve: an empty diff ends commit() on a retry as
\* it does on the first attempt.
junos_commit_approve_noretry(diff, s0, retry, isatty, inputs) ==
    IF diff = EmptyDiff
    THEN Decision(s0, "return", "none", FALSE, FALSE, "-", "empty")
    ELSE LET s == DiffStore(s0)
             st == status(s, diff)
             a == ask_approval(isatty, inputs)
         IN IF st = "True" THEN Decision(s, "commit", "none", FALSE, FALSE, "-", st)
            ELSE IF st = "False" THEN Decision(s, "return", "none", TRUE, FALSE, "-", st)
            ELSE IF a.exc # "none" THEN Decision(s, "raise", a.exc, TRUE, TRUE, a.answer, st)
            ELSE IF a.answer = "no" THEN Decision(s, "raise", "HomerError", TRUE, TRUE, a.answer, st)
            ELSE IF a.answer = "none"
                 THEN LET r == reject(s, diff)
                      IN Decision(r.store, "raise",
                                  IF r.exc # "none" THEN r.exc ELSE "HomerError",
                                  TRUE, TRUE, a.answer, st)
            ELSE IF a.answer = "all"
                 THEN LET r == approve(s, diff)
                      IN IF r.exc # "none"
                         THEN Decision(r.store, "raise", r.exc, TRUE, TRUE, a.answer, st)
                         ELSE Decision(r.store, "commit", "none", FALSE, TRUE, a.answer, st)
            ELSE Decision(s, "commit", "none", FALSE, TRUE, a.answer, st)

junos_commit_approve(diff, s0, retry, isatty, inputs) ==
    IF diff = EmptyDiff
    THEN Decision(s0, IF ~retry THEN "return" ELSE "commit", "none", FALSE, FALSE, "-", "empty")
    ELSE LET s == DiffStore(s0)
             st == status(s, diff)
             a == ask_approval(isatty, inputs)
         IN IF st = "True" THEN Decision(s, "commit", "none", FALSE, FALSE, "-", st)
            ELSE IF st = "False" THEN Decision(s, "return", "none", TRUE, FALSE, "-", st)
            ELSE IF a.exc # "none" THEN Decision(s, "raise", a.exc, TRUE, TRUE, a.answer, st)
            ELSE IF a.answer = "no" THEN Decision(s, "raise", "HomerError", TRUE, TRUE, a.answer, st)
            ELSE IF a.answer = "none"
                 THEN LET r == reject(s, diff)
                      IN Decision(r.store, "raise",
                                  IF r.exc # "none" THEN r.exc ELSE "HomerError",
                                  TRUE, TRUE, a.answer, st)
            ELSE IF a.answer = "all"
                 THEN LET r == approve(s, diff)
                      IN IF r.exc # "none"
                         THEN Decision(r.store, "raise", r.exc, TRUE, TRUE, a.answer, st)
                         ELSE Decision(r.store, "commit", "none", FALSE, TRUE, a.answer, st)
            ELSE IF a.answer # "yes"
                 THEN Decision(s, "raise", "HomerError", TRUE, TRUE, a.answer, st)
            ELSE Decision(s, "commit", "none", FALSE, TRUE, a.answer, st)

\* Variant of json_rpc_commit_approve: only 'none' stops the commit, any other
\* answer of the prompt lets it go on.
json_rpc_commit_approve_lax(diff, s0, retry, isatty, inputs) ==
    IF diff = EmptyDiff
    THEN Decision(s0, IF ~retry THEN "return" ELSE "commit", "none", FALSE, FALSE, "-", "empty")
    ELSE LET s == DiffStore(s0)
             st == status(s, diff)
             a == ask_approval(isatty, inputs)
         IN IF st = "True" THEN Decision(s, "commit", "none", FALSE, FALSE, "-", st)
            ELSE IF st = "False" THEN Decision(s, "return", "none", FALSE, FALSE, "-", st)
            ELSE IF a.exc # "none" THEN Decision(s, "raise", a.exc, FALSE, TRUE, a.answer, st)
            ELSE IF a.answer = "none"
                 THEN LET r == reject(s, diff)
                      IN Decision(r.store, IF r.exc # "none" THEN "raise" ELSE "return",
                                  r.exc, FALSE, TRUE, a.answer, st)
            ELSE IF a.answer = "all"
                 THEN LET r == approve(s, diff)
                      IN Decision(r.store, IF r.exc # "none" THEN "raise" ELSE "commit",
                                  r.exc, FALSE, TRUE, a.answer, st)
            ELSE Decision(s, "commit", "none", FALSE, TRUE, a.answer, st)

json_rpc_commit_approve(diff, s0, retry, isatty, inputs) ==
    IF diff = EmptyDiff
    THEN Decision(s0, IF ~retry THEN "return" ELSE "commit", "none", FALSE, FALSE, "-", "empty")
    ELSE LET s == DiffStore(s0)
             st == status(s, diff)
             a == ask_approval(isatty, inputs)
         IN IF st = "True" THEN Decision(s, "commit", "none", FALSE, FALSE, "-", st)
            ELSE IF st = "False" THEN Decision(s, "return", "none", FALSE, FALSE, "-", st)
            ELSE IF a.exc # "none" THEN Decision(s, "raise", a.exc, FALSE, TRUE, a.answer, st)
            ELSE IF a.answer = "no" THEN Decision(s, "return", "none", FALSE, TRUE, a.answer, st)
            ELSE IF a.answer = "none"
                 THEN LET r == reject(s, diff)
                      IN Decision(r.store, IF r.exc # "none" THEN "raise" ELSE "return",
                                  r.exc, FALSE, TRUE, a.answer, st)
            ELSE IF a.answer = "all"
                 THEN LET r == approve(s, diff)
                      IN Decision(r.store, IF r.exc # "none" THEN "raise" ELSE "commit",
                                  r.exc, FALSE, TRUE, a.answer, st)
            ELSE IF a.answer # "yes"
                 THEN Decision(s, "raise", "HomerError", FALSE, TRUE, a.answer, st)
            ELSE Decision(s, "commit", "none", FALSE, TRUE, a.answer, st)

(***************************************************************************)
(* The exception a failed commit or confirm request leaves commit() with.  *)
(***************************************************************************)
\* Variant of junos_commit_except: a timeout is reported like a commit error.
junos_commit_except_notimeout(o) ==
    IF o \in {"RpcTimeoutError", "CommitError"} THEN "HomerError" ELSE o

junos_commit_except(o) ==
    IF o = "RpcTimeoutError" THEN "HomerTimeoutError"
    ELSE IF o = "CommitError" THEN "HomerError"
    ELSE o

json_rpc_commit_except(o) ==
    IF o = "Timeout" THEN "HomerTimeoutError"
    ELSE IF o = "RequestException" THEN "HomerConnectError"
    ELSE o

\* ConnectedDevice._prepare (junos): ConfigLoadError is re-raised as it is,
\* any other exception after a rollback.
junos_prepare_except(e) == IF e = "ConfigLoadError" THEN <<>> ELSE <<"rollback">>

(***************************************************************************)
(* The device.  The diff it reports for the candidate configuration: the   *)
(* device's own diff while it runs the old configuration, empty once the   *)
(* new one is active.  A commit waiting for its confirmation is reverted   *)
(* by the device when the confirm timeout expires.                         *)
(***************************************************************************)
DeviceDiffs(r, st) ==
    IF r = 0 \/ st = "new" THEN {[raw |-> RawDiff(0), st |-> st]}
    ELSE IF st = "old" THEN {[raw |-> RawDiff(r), st |-> st]}
    ELSE {[raw |-> RawDiff(0), st |-> "pending"], [raw |-> RawDiff(r), st |-> "old"]}

\* The device after a commit-with-confirmation request that ended with o.
AfterCommit(o, st) ==
    IF o = "ok" THEN {"pending"}
    ELSE IF o \in {"RpcTimeoutError", "Timeout"} THEN {"pending", st}
    ELSE {st}

\* The device after a confirming request that ended with o.
AfterConfirm(o, st) ==
    IF st # "pending" THEN {st}
    ELSE IF o = "ok" THEN {"new"}
    ELSE IF o \in {"RpcTimeoutError", "Timeout"} THEN {"new", st}
    ELSE {st}

(***************************************************************************)
(* config.py: HierarchicalConfig.  A layer is a dictionary; here it is the *)
(* set of top-level keys it defines, and the value of key k in layer l is  *)
(* the object <<l, d, k>> (d is "-" for the layers all devices share, the  *)
(* device for device.config and device.private): a dictionary or list the  *)
(* caller can change in place.  dirty is the set of objects changed since  *)
(* the files were loaded.  The devices all have role roleA and site siteA  *)
(* at first; a role or site without an entry in roles.yaml or sites.yaml   *)
(* selects the empty dictionary.                                           *)
(***************************************************************************)
ConfigDevs == {"deviceA", "deviceB"}

PublicShared == {"public_common", "public_roles", "public_sites"}
PrivateShared == {"private_common", "private_roles", "private_sites"}
SharedLayers == PublicShared \cup PrivateShared
Layers == SharedLayers \cup {"device_config", "device_private"}

\* The keys a configuration file may define here: a key of its own, and the
\* key 'hostname' that get() injects as well (in the common files only).
LayerKeys == {"k", "hostname"}

LayerChoices ==
    {l \in [Layers -> SUBSET LayerKeys] :
        \A x \in Layers \ {"public_common", "private_common"} : "hostname" \notin l[x]}

\* get() is not called directly: _execute's use of it is the outcome of the
\* rendering in execute_next.
NoConfig == "-"

\* The value of key k in layer l as seen by device d: a reference to the
\* object the layer holds.
Ref(l, d, k) ==
    [layer |-> l,
     obj |-> <<l, IF l \in SharedLayers THEN "-" ELSE d, k>>,
     alias |-> TRUE,
     content |-> "-"]

\* What a value holds: the object's state for a reference, its own for a copy.
Content(v, dirty) ==
    IF v.alias THEN (IF v.obj \in dirty THEN "mutated" ELSE "loaded") ELSE v.content

\* A deepcopy that returns its argument.
deepcopy_same(v, dirty) == v

\* copy.deepcopy of one value: a new object with the content of the old one.
deepcopy(v, dirty) == [v EXCEPT !.alias = FALSE, !.content = Content(v, dirty)]

\* copy.deepcopy of a dictionary.
deepcopy_dict(m, dirty) == [k \in DOMAIN m |-> deepcopy(m[k], dirty)]

\* {**lo, **hi} with the later dictionary losing.
merge_first(lo, hi) ==
    [k \in DOMAIN lo \cup DOMAIN hi |-> IF k \in DOMAIN lo THEN lo[k] ELSE hi[k]]

\* {**lo, **hi}: the keys of both, the value of hi where both define one.
merge(lo, hi) ==
    [k \in DOMAIN lo \cup DOMAIN hi |-> IF k \in DOMAIN hi THEN hi[k] ELSE lo[k]]

\* self._configs[l] for the shared layers, with role and site resolved by
\* .get(role, {}) and .get(site, {}); device.config and device.private.
LayerDict(c, l, d) ==
    LET keys == IF l \in {"public_roles", "private_roles"} /\ c.meta[d].role # "roleA" THEN {}
                ELSE IF l \in {"public_sites", "private_sites"} /\ c.meta[d].site # "siteA" THEN {}
                ELSE c.layers[l]
    IN [k \in keys |-> Ref(l, d, k)]

\* {'metadata': device.metadata, 'hostname': device.fqdn}: the metadata
\* dictionary itself and a string.
Injected(d) ==
    [k \in {"metadata", "hostname"} |->
        [layer |-> "injected", obj |-> <<"injected", d, k>>, alias |-> (k = "metadata"),
         content |-> IF k = "metadata" THEN "-" ELSE "loaded"]]

\* A get() without the check of the keys.
get_nocheck(c, d) ==
    LET public == merge(merge(merge(merge(
                      deepcopy_dict(LayerDict(c, "public_common", d), c.dirty),
                      deepcopy_dict(LayerDict(c, "public_roles", d), c.dirty)),
                      deepcopy_dict(LayerDict(c, "public_sites", d), c.dirty)),
                      LayerDict(c, "device_config", d)),
                      Injected(d))
        private == merge(merge(merge(
                       LayerDict(c, "private_common", d),
                       LayerDict(c, "private_roles", d)),
                       LayerDict(c, "private_sites", d)),
                       LayerDict(c, "device_private", d))
    IN [exc |-> "none", resolved |-> merge(public, deepcopy_dict(private, c.dirty))]

\* HierarchicalConfig.get(device).
get(c, d) ==
    LET public == merge(merge(merge(merge(
                      deepcopy_dict(LayerDict(c, "public_common", d), c.dirty),
                      deepcopy_dict(LayerDict(c, "public_roles", d), c.dirty)),
                      deepcopy_dict(LayerDict(c, "public_sites", d), c.dirty)),
                      LayerDict(c, "device_config", d)),
                      Injected(d))
        private == merge(merge(merge(
                       LayerDict(c, "private_common", d),
                       LayerDict(c, "private_roles", d)),
                       LayerDict(c, "private_sites", d)),
                       LayerDict(c, "device_private", d))
    IN IF DOMAIN public \cap DOMAIN private # {}
       THEN [exc |-> "HomerError", resolved |-> <<>>]
       ELSE [exc |-> "none", resolved |-> merge(public, deepcopy_dict(private, c.dirty))]

(***************************************************************************)
(* devices.py: the Devices catalog.  A name (fqdn, role, site, query) is a *)
(* sequence of characters; the catalog is the sequence of the devices in   *)
(* the order in which __init__ inserted them.                              *)
(***************************************************************************)
NoCatalog == "-"

role_prefix == <<"r", "o", "l", "e">>
site_prefix == <<"s", "i", "t", "e">>

\* Devices.__init__: the devices by fqdn (data), by role and by site, each in
\* insertion order.
Devices(inserted) ==
    [data |-> inserted,
     roles |-> [r \in {inserted[i].role : i \in 1..Len(inserted)} |->
                   SelectSeq(inserted, LAMBDA d : d.role = r)],
     sites |-> [x \in {inserted[i].site : i \in 1..Len(inserted)} |->
                   SelectSeq(inserted, LAMBDA d : d.site = x)]]

\* Devices.role and Devices.site.
role(c, name) == IF name \in DOMAIN c.roles THEN c.roles[name] ELSE <<>>
site(c, name) == IF name \in DOMAIN c.sites THEN c.sites[name] ELSE <<>>

\* fnmatch.fnmatch for patterns of literal characters, '*' and '?'.
RECURSIVE fnmatch(_, _)
fnmatch(name, pat) ==
    IF pat = <<>> THEN name = <<>>
    ELSE IF pat[1] = "*"
         THEN \/ fnmatch(name, Tail(pat))
              \/ name # <<>> /\ fnmatch(Tail(name), pat)
    ELSE /\ name # <<>>
         /\ pat[1] = "?" \/ pat[1] = name[1]
         /\ fnmatch(Tail(name), Tail(pat))

\* The position of the first ':' of the query string, 0 without one.
FirstColon(q) ==
    IF \E i \in 1..Len(q) : q[i] = ":"
    THEN CHOOSE i \in 1..Len(q) : q[i] = ":" /\ \A j \in 1..(i - 1) : q[j] # ":"
    ELSE 0

\* A query() that matches the fqdn also when the string has a prefix.
query_glob(c, query_string) ==
    [exc |-> "none", results |-> SelectSeq(c.data, LAMBDA d : fnmatch(d.fqdn, query_string))]

\* Devices.query.
query(c, query_string) ==
    LET i == FirstColon(query_string)
        prefix == SubSeq(query_string, 1, i - 1)
        rest == SubSeq(query_string, i + 1, Len(query_string))
    IN IF i # 0
       THEN IF prefix \notin {role_prefix, site_prefix}
            THEN [exc |-> "HomerError", results |-> <<>>]
            ELSE [exc |-> "none",
                  results |-> IF prefix = role_prefix THEN role(c, rest) ELSE site(c, rest)]
       ELSE [exc |-> "none",
             results |-> SelectSeq(c.data, LAMBDA d : fnmatch(d.fqdn, query_string))]

(***************************************************************************)
(* The output directory of generate: its entries are files and             *)
(* subdirectories, named by a stem and a suffix.  The file of device d is  *)
(* '<fqdn of d>.out', stem d; stems outside Devs are other names.          *)
(***************************************************************************)
OUT_EXTENSION == ".out"

File(stem, suffix, content) ==
    [stem |-> stem, suffix |-> suffix, kind |-> "file", content |-> content]

Dir(stem, suffix) == [stem |-> stem, suffix |-> suffix, kind |-> "dir", content |-> "-"]

\* What the directory may hold before the run: a stale output file of no
\* selected device, an old output file of the first device, a subdirectory, a
\* file of the second device with another extension, and a subdirectory whose
\* name ends with the extension.  A directory that does not exist yet is
\* created empty.
InitEntries ==
    {File(0, OUT_EXTENSION, "old"), File(1, OUT_EXTENSION, "old"), Dir(0, ""),
     File(2, ".txt", "old"), Dir(NumDevices + 1, OUT_EXTENSION)}

OutDirs == SUBSET InitEntries

\* A _prepare_out_dir that deletes nothing.
prepare_out_dir_keep(dir) == dir

\* Homer._prepare_out_dir: every entry that is a file with the suffix
\* OUT_EXTENSION is unlinked.
prepare_out_dir(dir) == {e \in dir : ~(e.kind = "file" /\ e.suffix = OUT_EXTENSION)}

\* open(output_path, 'w') and the write of the configuration of device d.
open_write(dir, d) ==
    {e \in dir : ~(e.stem = d /\ e.suffix = OUT_EXTENSION)} \cup {File(d, OUT_EXTENSION, "new")}

(***************************************************************************)
(* The initial state: Homer constructed, one of generate, diff and commit  *)
(* called, the DiffStore not yet instantiated.  diff and commit start at   *)
(* _execute, generate at _prepare_out_dir; the output directory is         *)
(* followed in generate only, the one operation that uses it.              *)
(***************************************************************************)
Init ==
    /\ mode \in Modes
    /\ pc = (IF mode = "generate" THEN "prepare" ELSE "loop")
    /\ idx = 1
    /\ attempt = 0
    /\ successes = [ok |-> <<>>, failed |-> <<>>]
    /\ diffs = [k \in DiffKeys |-> <<>>]
    /\ ret = -1
    /\ transport = "junos"
    /\ rawIdx = 0
    /\ devState = "old"
    /\ store = NoStore
    /\ session = "none"
    /\ failure = "none"
    /\ sdiff = EmptyDiff
    /\ rpcs = <<>>
    /\ closeCalls = 0
    /\ exc = "none"
    /\ result = NoResult
    /\ prompts = 0
    /\ answer = "-"
    /\ seen = "-"
    /\ calls = 0
    /\ raised = 0
    /\ commitCount = 0
    /\ committedDiffs = {}
    /\ skippedDiffs = {}
    /\ boundCommitted = {}
    /\ boundSkipped = {}
    /\ call = "-"
    /\ workers = [w \in Workers |-> IdleWorker]
    /\ outdir \in (IF mode = "generate" THEN OutDirs ELSE {{}})
    /\ hc = NoConfig
    /\ devices = NoCatalog
    /\ colored = NoText

\* No session: the callback has not opened one, or the one it opened is out of
\* scope.
NoSession ==
    /\ session' = "none"
    /\ failure' = "none"
    /\ sdiff' = EmptyDiff
    /\ rpcs' = <<>>
    /\ closeCalls' = 0
    /\ exc' = "none"
    /\ result' = NoResult
    /\ prompts' = 0
    /\ answer' = "-"
    /\ seen' = "-"

\* A new session object: nothing sent, nothing computed yet.
NewSession ==
    /\ session' = "open"
    /\ failure' = "none"
    /\ sdiff' = EmptyDiff
    /\ rpcs' = <<>>
    /\ closeCalls' = 0
    /\ exc' = "none"
    /\ result' = NoResult
    /\ prompts' = 0
    /\ answer' = "-"
    /\ seen' = "-"

\* The body of the with statement ends with exception e or value res, having
\* sent log: the finally clause of connected_device is next.
BodyEnd(e, res, log) ==
    /\ exc' = e
    /\ result' = res
    /\ rpcs' = log
    /\ pc' = connected_device_exit(transport, e)

\* connection.commit() ends with e inside the try of _device_commit.
CommitEnd(e, log) == BodyEnd(device_commit(e).exc, device_commit(e).result, log)

(***************************************************************************)
(* Homer._execute, lines 304-361: the next device of the query, its        *)
(* configuration and rendering; after the last device the exit status of   *)
(* generate, diff or commit.  HierarchicalConfig.get, CapircaGenerate and  *)
(* the renderers fail with HomerError.                                     *)
(***************************************************************************)
\* Homer.generate, line 141: the output directory is prepared, then the
\* devices are processed.
generate ==
    /\ pc = "prepare"
    /\ outdir' = prepare_out_dir(outdir)
    /\ pc' = "loop"
    /\ UNCHANGED <<orchVars, envVars, store, sessVars, histVars, call, workers, hc, devices, colored>>

\* An _execute that skips a device whose rendering failed without recording
\* it.
execute_next_unrecorded ==
    /\ pc = "loop"
    /\ idx <= NumDevices
    /\ \E t \in Transports, r \in 0..MaxDiff, o \in {"ok", "HomerError"} :
          /\ transport' = t
          /\ rawIdx' = r
          /\ devState' = "old"
          /\ calls' = 0
          /\ raised' = 0
          /\ commitCount' = 0
          /\ IF o = "ok"
             THEN /\ attempt' = 1
                  /\ pc' = "callback"
                  /\ UNCHANGED <<idx, successes>>
             ELSE /\ idx' = idx + 1
                  /\ pc' = "loop"
                  /\ UNCHANGED <<attempt, successes>>
    /\ UNCHANGED <<mode, diffs, ret, store, sessVars, decisions, call, workers, outdir, hc, devices, colored>>

execute_next ==
    /\ pc = "loop"
    /\ idx <= NumDevices
    /\ \E t \in Transports, r \in 0..MaxDiff, o \in {"ok", "HomerError"} :
          /\ transport' = t
          /\ rawIdx' = r
          /\ devState' = "old"
          /\ calls' = 0
          /\ raised' = 0
          /\ commitCount' = 0
          /\ IF o = "ok"
             THEN /\ attempt' = 1
                  /\ pc' = "callback"
                  /\ UNCHANGED <<idx, successes>>
             ELSE /\ successes' = [successes EXCEPT !.failed = Append(@, idx)]
                  /\ idx' = idx + 1
                  /\ pc' = "loop"
                  /\ UNCHANGED attempt
    /\ UNCHANGED <<mode, diffs, ret, store, sessVars, decisions, call, workers, outdir, hc, devices, colored>>

execute_return ==
    /\ pc = "loop"
    /\ idx > NumDevices
    /\ pc' = "done"
    /\ ret' = IF mode = "diff" THEN diff_status(successes, diffs) ELSE parse_results(successes)
    /\ UNCHANGED <<mode, idx, attempt, successes, diffs, envVars, store, sessVars, histVars,
                   call, workers, outdir, hc, devices, colored>>

(***************************************************************************)
(* Homer._execute, lines 363-374: the outcome of one callback attempt.     *)
(***************************************************************************)
\* Variant of Record: a device that failed is left out of the diff groups.
Record_ungrouped(success, diff) ==
    /\ successes' = IF success THEN [successes EXCEPT !.ok = Append(@, idx)]
                    ELSE [successes EXCEPT !.failed = Append(@, idx)]
    /\ diffs' = IF success THEN [diffs EXCEPT ![diff] = Append(@, idx)] ELSE diffs
    /\ idx' = idx + 1
    /\ pc' = "loop"
    /\ UNCHANGED attempt

Record(success, diff) ==
    /\ successes' = IF success THEN [successes EXCEPT !.ok = Append(@, idx)]
                    ELSE [successes EXCEPT !.failed = Append(@, idx)]
    /\ diffs' = [diffs EXCEPT ![diff] = Append(@, idx)]
    /\ idx' = idx + 1
    /\ pc' = "loop"
    /\ UNCHANGED attempt

execute_result ==
    /\ pc = "returned"
    /\ raised' = IF exc \in {"HomerTimeoutError", "HomerConnectError"} THEN raised + 1 ELSE raised
    /\ LET a == execute_attempt(exc, attempt)
       IN IF a = "record" THEN Record(result.success, result.diff)
          ELSE IF a = "retry"
          THEN /\ attempt' = attempt + 1
               /\ pc' = "callback"
               /\ UNCHANGED <<idx, successes, diffs>>
          ELSE IF a = "exhausted" THEN Record(FALSE, EmptyDiff)
          ELSE /\ pc' = "aborted"
               /\ UNCHANGED <<idx, attempt, successes, diffs>>
    /\ NoSession
    /\ UNCHANGED <<mode, ret, envVars, store, calls, commitCount, decisions, call, workers, outdir, hc, devices, colored>>

(***************************************************************************)
(* The callbacks: _device_generate, and the connected_device of            *)
(* _device_diff and _device_commit.                                        *)
(***************************************************************************)
device_generate ==
    /\ pc = "callback"
    /\ mode = "generate"
    /\ calls' = calls + 1
    /\ exc' = "none"
    /\ result' = Result(TRUE, NoneDiff)
    /\ outdir' = open_write(outdir, idx)
    /\ pc' = "returned"
    /\ UNCHANGED <<orchVars, envVars, store, session, failure, sdiff, rpcs, closeCalls, prompts, answer,
                   seen, raised, commitCount, decisions, call, workers, hc, devices, colored>>

junos_connected_device ==
    /\ pc = "callback"
    /\ mode # "generate"
    /\ transport = "junos"
    /\ calls' = calls + 1
    /\ \E o \in {"ok", "ConnectError"} :
          IF o = "ok"
          THEN /\ NewSession
               /\ pc' = "j_lock"
          ELSE /\ exc' = "HomerConnectError"
               /\ result' = NoResult
               /\ session' = "none"
               /\ failure' = o
               /\ pc' = "returned"
               /\ UNCHANGED <<sdiff, rpcs, closeCalls, prompts, answer, seen>>
    /\ UNCHANGED <<orchVars, envVars, store, raised, commitCount, decisions, call, workers, outdir, hc, devices, colored>>

json_rpc_connected_device ==
    /\ pc = "callback"
    /\ mode # "generate"
    /\ transport = "json_rpc"
    /\ calls' = calls + 1
    /\ NewSession
    /\ pc' = "r_diff"
    /\ UNCHANGED <<orchVars, envVars, store, raised, commitCount, decisions, call, workers, outdir, hc, devices, colored>>

(***************************************************************************)
(* junos.ConnectedDevice._prepare: lock, load, diff.  A failure of         *)
(* _prepare ends commit() with the exception as it is; commit_check()      *)
(* catches it, rolls back and returns (False, None).                       *)
(***************************************************************************)
\* The outcomes of the rollback request.
RollbackOutcomes == {"ok", "ValueError", "RpcTimeoutError"}

\* A _rollback() that lets the failure of the request escape.
junos_rollback_raise(o) == IF o = "ok" THEN "none" ELSE o

\* junos.ConnectedDevice._rollback: the exception that leaves it when the
\* rollback request ends with o.  ValueError and every other Exception are
\* caught and logged.
junos_rollback(o) == "none"

\* commit_check() returns res after a rollback that ended with rb.
CheckEnd(rb, res, log) ==
    BodyEnd(junos_rollback(rb), IF junos_rollback(rb) = "none" THEN res ELSE NoResult, log)

junos_prepare_raise(e, log) ==
    IF mode = "commit"
    THEN CommitEnd(e, log \o junos_prepare_except(e))
    ELSE \E rb \in RollbackOutcomes :
            CheckEnd(rb, Result(FALSE, NoneDiff), log \o junos_prepare_except(e) \o <<"rollback">>)

junos_lock ==
    /\ pc = "j_lock"
    /\ \E o \in {"ok", "LockError", "RpcTimeoutError"} :
          /\ failure' = (IF o = "ok" THEN failure ELSE o)
          /\ IF o = "ok"
             THEN /\ rpcs' = Append(rpcs, "lock")
                  /\ pc' = "j_load"
                  /\ UNCHANGED <<exc, result>>
             ELSE junos_prepare_raise(o, Append(rpcs, "lock"))
    /\ UNCHANGED <<orchVars, envVars, store, session, sdiff, closeCalls, prompts, answer, seen,
                   histVars, call, workers, outdir, hc, devices, colored>>

junos_load ==
    /\ pc = "j_load"
    /\ \E o \in {"ok", "ConfigLoadError", "RpcTimeoutError"} :
          /\ failure' = (IF o = "ok" THEN failure ELSE o)
          /\ IF o = "ok"
             THEN /\ rpcs' = Append(rpcs, "load")
                  /\ pc' = "j_diff"
                  /\ UNCHANGED <<exc, result>>
             ELSE junos_prepare_raise(o, Append(rpcs, "load"))
    /\ UNCHANGED <<orchVars, envVars, store, session, sdiff, closeCalls, prompts, answer, seen,
                   histVars, call, workers, outdir, hc, devices, colored>>

\* After _prepare returned the diff: commit() goes on to the approval,
\* commit_check() returns at once on an empty diff.
junos_diff ==
    /\ pc = "j_diff"
    /\ \/ \E d \in DeviceDiffs(rawIdx, devState) :
             /\ devState' = d.st
             /\ sdiff' = color_diff(d.raw)
             /\ UNCHANGED failure
             /\ IF mode = "commit"
                THEN /\ rpcs' = Append(rpcs, "diff")
                     /\ pc' = "j_approve"
                     /\ UNCHANGED <<exc, result>>
                ELSE IF sdiff' = EmptyDiff
                THEN \E rb \in RollbackOutcomes :
                        CheckEnd(rb, Result(TRUE, sdiff'), rpcs \o <<"diff", "rollback">>)
                ELSE /\ rpcs' = Append(rpcs, "diff")
                     /\ pc' = "j_check"
                     /\ UNCHANGED <<exc, result>>
       \/ \E o \in {"RpcError", "RpcTimeoutError"} :
             /\ junos_prepare_raise(o, Append(rpcs, "diff"))
             /\ failure' = o
             /\ UNCHANGED <<devState, sdiff>>
    /\ UNCHANGED <<orchVars, transport, rawIdx, store, session, closeCalls, prompts, answer, seen,
                   histVars, call, workers, outdir, hc, devices, colored>>

(***************************************************************************)
(* junos.ConnectedDevice.commit, lines 97-128: the approval of the diff.   *)
(***************************************************************************)
\* The session's decision on diff is one for all devices: the answer was 'all'
\* or 'none', or such an answer was given for the diff before.
ForAll(diff, asked, ans) ==
    \/ asked /\ ans \in {"all", "none"}
    \/ diff \in boundCommitted \cup boundSkipped

\* The commit request is sent for the session's diff.
Committing ==
    /\ committedDiffs' = committedDiffs \cup {sdiff}
    /\ boundCommitted' = IF ForAll(sdiff, prompts > 0, answer)
                         THEN boundCommitted \cup {sdiff} ELSE boundCommitted
    /\ UNCHANGED <<skippedDiffs, boundSkipped>>

Decide(d) ==
    /\ store' = d.store
    /\ prompts' = IF d.asked THEN prompts + 1 ELSE prompts
    /\ answer' = d.answer
    /\ seen' = d.seen
    /\ IF sdiff # EmptyDiff /\ d.next # "commit"
       THEN /\ skippedDiffs' = skippedDiffs \cup {sdiff}
            /\ boundSkipped' = IF ForAll(sdiff, d.asked, d.answer)
                               THEN boundSkipped \cup {sdiff} ELSE boundSkipped
       ELSE UNCHANGED <<skippedDiffs, boundSkipped>>
    /\ UNCHANGED <<committedDiffs, boundCommitted>>

junos_approve ==
    /\ pc = "j_approve"
    /\ \E isatty \in BOOLEAN, i1 \in Inputs, i2 \in Inputs :
          LET d == junos_commit_approve(sdiff, store, is_retry(attempt), isatty, <<i1, i2>>)
              log == IF d.rollback THEN Append(rpcs, "rollback") ELSE rpcs
          IN /\ Decide(d)
             /\ IF d.next = "commit"
                THEN /\ pc' = IF sdiff # EmptyDiff THEN "j_commit" ELSE "j_confirm"
                     /\ UNCHANGED <<exc, result, rpcs>>
                ELSE CommitEnd(d.exc, log)
    /\ UNCHANGED <<orchVars, envVars, session, failure, sdiff, closeCalls, calls, raised, commitCount,
                   call, workers, outdir, hc, devices, colored>>

(***************************************************************************)
(* junos.ConnectedDevice.commit, lines 130-137: commit confirmed, then     *)
(* commit_check.                                                           *)
(***************************************************************************)
junos_commit ==
    /\ pc = "j_commit"
    /\ commitCount' = commitCount + 1
    /\ Committing
    /\ \E o \in {"ok", "RpcTimeoutError", "CommitError", "ValueError"} :
          /\ devState' \in AfterCommit(o, devState)
          /\ failure' = (IF o = "ok" THEN failure ELSE o)
          /\ IF o = "ok"
             THEN /\ rpcs' = Append(rpcs, "commit")
                  /\ pc' = "j_confirm"
                  /\ UNCHANGED <<exc, result>>
             ELSE CommitEnd(junos_commit_except(o), Append(rpcs, "commit"))
    /\ UNCHANGED <<orchVars, transport, rawIdx, store, session, sdiff, closeCalls, prompts,
                   answer, seen, calls, raised, call, workers, outdir, hc, devices, colored>>

junos_confirm ==
    /\ pc = "j_confirm"
    /\ \E o \in {"ok", "RpcTimeoutError", "CommitError", "ValueError"} :
          /\ devState' \in AfterConfirm(o, devState)
          /\ failure' = (IF o = "ok" THEN failure ELSE o)
          /\ CommitEnd(junos_commit_except(o), Append(rpcs, "commit_check"))
    /\ UNCHANGED <<orchVars, transport, rawIdx, store, session, sdiff, closeCalls, prompts,
                   answer, seen, histVars, call, workers, outdir, hc, devices, colored>>

(***************************************************************************)
(* junos.ConnectedDevice.commit_check, lines 166-178: the commit check of  *)
(* a non-empty diff, always followed by the rollback.                      *)
(***************************************************************************)
\* A commit_check() that returns the diff without the commit check.
junos_check_skip ==
    /\ pc = "j_check"
    /\ \E rb \in RollbackOutcomes : CheckEnd(rb, Result(TRUE, sdiff), rpcs \o <<"rollback">>)
    /\ UNCHANGED <<orchVars, envVars, store, session, failure, sdiff, closeCalls, prompts, answer,
                   seen, histVars, call, workers, outdir, hc, devices, colored>>

junos_check ==
    /\ pc = "j_check"
    /\ \E o \in {"ok", "CommitError", "RpcTimeoutError"}, rb \in RollbackOutcomes :
          /\ CheckEnd(rb, Result(o = "ok", sdiff), rpcs \o <<"commit_check", "rollback">>)
          /\ failure' = (IF o = "ok" THEN failure ELSE o)
    /\ UNCHANGED <<orchVars, envVars, store, session, sdiff, closeCalls, prompts, answer, seen,
                   histVars, call, workers, outdir, hc, devices, colored>>

(***************************************************************************)
(* junos.ConnectedDevice.close: the unlock, then the transport's close.    *)
(* An exception that close() does not catch replaces the one in flight.    *)
(***************************************************************************)
junos_unlock ==
    /\ pc = "j_unlock"
    /\ closeCalls' = closeCalls + 1
    /\ rpcs' = Append(rpcs, "unlock")
    /\ \E o \in {"ok", "UnlockError", "RpcTimeoutError"} :
          IF o \in {"ok", "UnlockError"}
          THEN /\ pc' = "j_close"
               /\ UNCHANGED <<exc, result>>
          ELSE /\ exc' = o
               /\ result' = NoResult
               /\ pc' = "returned"
    /\ UNCHANGED <<orchVars, envVars, store, session, failure, sdiff, prompts, answer, seen, histVars,
                   call, workers, outdir, hc, devices, colored>>

junos_close ==
    /\ pc = "j_close"
    /\ rpcs' = Append(rpcs, "close")
    /\ session' = "closed"
    /\ \E o \in {"ok", "RpcTimeoutError", "TimeoutExpiredError"} :
          pc' = "returned"
    /\ UNCHANGED <<orchVars, envVars, store, failure, sdiff, closeCalls, exc, result, prompts,
                   answer, seen, histVars, call, workers, outdir, hc, devices, colored>>

(***************************************************************************)
(* json_rpc.ConnectedDevice: _prepare (the diff request), the approval,    *)
(* the set request with confirm-timeout and the confirmed-accept request   *)
(* of commit(), the validate request of commit_check(), and close().       *)
(***************************************************************************)
json_rpc_diff ==
    /\ pc = "r_diff"
    /\ \/ \E d \in DeviceDiffs(rawIdx, devState) :
             /\ devState' = d.st
             /\ sdiff' = color_diff(d.raw)
             /\ UNCHANGED failure
             /\ IF mode = "commit"
                THEN /\ rpcs' = Append(rpcs, "jr_diff")
                     /\ pc' = "r_approve"
                     /\ UNCHANGED <<exc, result>>
                ELSE IF sdiff' = EmptyDiff
                THEN BodyEnd("none", Result(TRUE, sdiff'), Append(rpcs, "jr_diff"))
                ELSE /\ rpcs' = Append(rpcs, "jr_diff")
                     /\ pc' = "r_validate"
                     /\ UNCHANGED <<exc, result>>
       \/ \E o \in {"HomerError", "Timeout", "RequestException"} :
             /\ IF mode = "commit"
                THEN CommitEnd(o, Append(rpcs, "jr_diff"))
                ELSE BodyEnd("none", Result(FALSE, NoneDiff), Append(rpcs, "jr_diff"))
             /\ failure' = o
             /\ UNCHANGED <<devState, sdiff>>
    /\ UNCHANGED <<orchVars, transport, rawIdx, store, session, closeCalls, prompts, answer, seen,
                   histVars, call, workers, outdir, hc, devices, colored>>

json_rpc_approve ==
    /\ pc = "r_approve"
    /\ \E isatty \in BOOLEAN, i1 \in Inputs, i2 \in Inputs :
          LET d == json_rpc_commit_approve(sdiff, store, is_retry(attempt), isatty, <<i1, i2>>)
          IN /\ Decide(d)
             /\ IF d.next = "commit" /\ sdiff # EmptyDiff
                THEN /\ pc' = "r_set"
                     /\ UNCHANGED <<exc, result, rpcs>>
                ELSE CommitEnd(d.exc, rpcs)
    /\ UNCHANGED <<orchVars, envVars, session, failure, sdiff, closeCalls, calls, raised, commitCount,
                   call, workers, outdir, hc, devices, colored>>

json_rpc_set ==
    /\ pc = "r_set"
    /\ commitCount' = commitCount + 1
    /\ Committing
    /\ \E o \in {"ok", "HomerError", "Timeout", "RequestException"} :
          /\ devState' \in AfterCommit(o, devState)
          /\ failure' = (IF o = "ok" THEN failure ELSE o)
          /\ IF o = "ok"
             THEN /\ rpcs' = Append(rpcs, "jr_set")
                  /\ pc' = "r_accept"
                  /\ UNCHANGED <<exc, result>>
             ELSE CommitEnd(json_rpc_commit_except(o), Append(rpcs, "jr_set"))
    /\ UNCHANGED <<orchVars, transport, rawIdx, store, session, sdiff, closeCalls, prompts,
                   answer, seen, calls, raised, call, workers, outdir, hc, devices, colored>>

json_rpc_accept ==
    /\ pc = "r_accept"
    /\ \E o \in {"ok", "HomerError", "Timeout", "RequestException"} :
          /\ devState' \in AfterConfirm(o, devState)
          /\ failure' = (IF o = "ok" THEN failure ELSE o)
          /\ CommitEnd(IF o = "ok" THEN "none" ELSE json_rpc_commit_except(o),
                       Append(rpcs, "jr_accept"))
    /\ UNCHANGED <<orchVars, transport, rawIdx, store, session, sdiff, closeCalls, prompts,
                   answer, seen, histVars, call, workers, outdir, hc, devices, colored>>

\* send_jsonrpc_request(raise_on_error=False): an 'error' member of the reply
\* makes the check fail; a failed request raises out of commit_check().
json_rpc_validate ==
    /\ pc = "r_validate"
    /\ \E o \in {"ok", "error", "HomerError", "Timeout", "RequestException"} :
          /\ failure' = (IF o \in {"ok", "error"} THEN failure ELSE o)
          /\ IF o \in {"ok", "error"}
             THEN BodyEnd("none", Result(o = "ok", sdiff), Append(rpcs, "jr_validate"))
             ELSE BodyEnd(o, NoResult, Append(rpcs, "jr_validate"))
    /\ UNCHANGED <<orchVars, envVars, store, session, sdiff, closeCalls, prompts, answer, seen,
                   histVars, call, workers, outdir, hc, devices, colored>>

json_rpc_close ==
    /\ pc = "r_close"
    /\ closeCalls' = closeCalls + 1
    /\ rpcs' = Append(rpcs, "jr_close")
    /\ session' = "closed"
    /\ pc' = "returned"
    /\ UNCHANGED <<orchVars, envVars, store, failure, sdiff, exc, result, prompts, answer, seen,
                   histVars, call, workers, outdir, hc, devices, colored>>

(***************************************************************************)
(* One run of generate, diff or commit.                                    *)
(***************************************************************************)
Next ==
    \/ generate
    \/ execute_next
    \/ execute_return
    \/ execute_result
    \/ device_generate
    \/ junos_connected_device
    \/ junos_lock
    \/ junos_load
    \/ junos_diff
    \/ junos_approve
    \/ junos_commit
    \/ junos_confirm
    \/ junos_check
    \/ junos_unlock
    \/ junos_close
    \/ json_rpc_connected_device
    \/ json_rpc_diff
    \/ json_rpc_approve
    \/ json_rpc_set
    \/ json_rpc_accept
    \/ json_rpc_validate
    \/ json_rpc_close

Spec == Init /\ [][Next]_vars

\* The run when every transport call and every prompt returns or raises, and
\* the loops of _execute go on: a step that can be taken is taken.
SpecLive == Spec /\ WF_vars(Next)

(***************************************************************************)
(* The DiffStore used directly, as its unit tests do: any sequence of      *)
(* approve, reject, status and reset calls from one caller.  sdiff is the  *)
(* argument of the last call, exc what it raised, seen what status()       *)
(* returned.                                                               *)
(***************************************************************************)
InitStore ==
    /\ mode = "commit"
    /\ pc = "api"
    /\ idx = 1
    /\ attempt = 0
    /\ successes = [ok |-> <<>>, failed |-> <<>>]
    /\ diffs = [k \in DiffKeys |-> <<>>]
    /\ ret = -1
    /\ transport = "junos"
    /\ rawIdx = 0
    /\ devState = "old"
    /\ store = NoStore
    /\ session = "none"
    /\ failure = "none"
    /\ sdiff = EmptyDiff
    /\ rpcs = <<>>
    /\ closeCalls = 0
    /\ exc = "none"
    /\ result = NoResult
    /\ prompts = 0
    /\ answer = "-"
    /\ seen = "-"
    /\ calls = 0
    /\ raised = 0
    /\ commitCount = 0
    /\ committedDiffs = {}
    /\ skippedDiffs = {}
    /\ boundCommitted = {}
    /\ boundSkipped = {}
    /\ call = "-"
    /\ workers = [w \in Workers |-> IdleWorker]
    /\ outdir = {}
    /\ hc = NoConfig
    /\ devices = NoCatalog
    /\ colored = NoText

StoreFrame ==
    UNCHANGED <<pc, orchVars, envVars, session, failure, rpcs, closeCalls, result, prompts, answer,
                histVars, workers, outdir, hc, devices, colored>>

DiffStore_approve ==
    /\ pc = "api"
    /\ \E d \in Diffs :
          LET r == approve(DiffStore(store), d)
          IN /\ store' = r.store
             /\ exc' = r.exc
             /\ sdiff' = d
    /\ call' = "approve"
    /\ seen' = "-"
    /\ StoreFrame

DiffStore_reject ==
    /\ pc = "api"
    /\ \E d \in Diffs :
          LET r == reject(DiffStore(store), d)
          IN /\ store' = r.store
             /\ exc' = r.exc
             /\ sdiff' = d
    /\ call' = "reject"
    /\ seen' = "-"
    /\ StoreFrame

DiffStore_status ==
    /\ pc = "api"
    /\ \E d \in Diffs :
          /\ store' = DiffStore(store)
          /\ seen' = status(DiffStore(store), d)
          /\ sdiff' = d
    /\ call' = "status"
    /\ exc' = "none"
    /\ StoreFrame

DiffStore_reset ==
    /\ pc = "api"
    /\ store' = reset(store)
    /\ call' = "reset"
    /\ exc' = "none"
    /\ seen' = "-"
    /\ sdiff' = EmptyDiff
    /\ StoreFrame

NextStore ==
    \/ DiffStore_approve
    \/ DiffStore_reject
    \/ DiffStore_status
    \/ DiffStore_reset

SpecStore == InitStore /\ [][NextStore]_vars

(***************************************************************************)
(* The DiffStore called from several threads at once.  Nothing in diff.py  *)
(* takes a lock, so a thread may be preempted between the statements of    *)
(* approve and reject: the test for the set of the method ("same", lines   *)
(* 47 and 65), the test for the opposite set ("other", lines 50 and 68)    *)
(* and the add ("add", lines 53 and 71).  Each thread makes one call; the  *)
(* instance was created before the threads started.                        *)
(***************************************************************************)
InitWorkers ==
    /\ mode = "commit"
    /\ pc = "threads"
    /\ idx = 1
    /\ attempt = 0
    /\ successes = [ok |-> <<>>, failed |-> <<>>]
    /\ diffs = [k \in DiffKeys |-> <<>>]
    /\ ret = -1
    /\ transport = "junos"
    /\ rawIdx = 0
    /\ devState = "old"
    /\ store = DiffStore(NoStore)
    /\ session = "none"
    /\ failure = "none"
    /\ sdiff = EmptyDiff
    /\ rpcs = <<>>
    /\ closeCalls = 0
    /\ exc = "none"
    /\ result = NoResult
    /\ prompts = 0
    /\ answer = "-"
    /\ seen = "-"
    /\ calls = 0
    /\ raised = 0
    /\ commitCount = 0
    /\ committedDiffs = {}
    /\ skippedDiffs = {}
    /\ boundCommitted = {}
    /\ boundSkipped = {}
    /\ call = "-"
    /\ workers = [w \in Workers |-> IdleWorker]
    /\ outdir = {}
    /\ hc = NoConfig
    /\ devices = NoCatalog
    /\ colored = NoText

WorkersFrame == UNCHANGED <<pc, orchVars, envVars, sessVars, histVars, call, outdir, hc, devices, colored>>

\* The set the method adds to, and the opposite one.
SameSet(s, op) == IF op = "approve" THEN s.approved ELSE s.rejected
OtherSet(s, op) == IF op = "approve" THEN s.rejected ELSE s.approved

worker_call(w) ==
    /\ pc = "threads"
    /\ workers[w].pc = "idle"
    /\ \E op \in {"approve", "reject"}, d \in Diffs :
          workers' = [workers EXCEPT ![w] = [pc |-> "same", op |-> op, diff |-> d, exc |-> "none"]]
    /\ UNCHANGED store
    /\ WorkersFrame

worker_same(w) ==
    /\ pc = "threads"
    /\ workers[w].pc = "same"
    /\ workers' = [workers EXCEPT ![w].pc =
                      IF workers[w].diff \in SameSet(store, workers[w].op) THEN "done" ELSE "other"]
    /\ UNCHANGED store
    /\ WorkersFrame

worker_other(w) ==
    /\ pc = "threads"
    /\ workers[w].pc = "other"
    /\ workers' = IF workers[w].diff \in OtherSet(store, workers[w].op)
                  THEN [workers EXCEPT ![w].pc = "done", ![w].exc = "HomerDiffError"]
                  ELSE [workers EXCEPT ![w].pc = "add"]
    /\ UNCHANGED store
    /\ WorkersFrame

worker_add(w) ==
    /\ pc = "threads"
    /\ workers[w].pc = "add"
    /\ store' = IF workers[w].op = "approve"
                THEN [store EXCEPT !.approved = @ \cup {workers[w].diff}]
                ELSE [store EXCEPT !.rejected = @ \cup {workers[w].diff}]
    /\ workers' = [workers EXCEPT ![w].pc = "done"]
    /\ WorkersFrame

NextWorkers ==
    \/ \E w \in Workers : worker_call(w)
    \/ \E w \in Workers : worker_same(w)
    \/ \E w \in Workers : worker_other(w)
    \/ \E w \in Workers : worker_add(w)

SpecWorkers == InitWorkers /\ [][NextWorkers]_vars

(***************************************************************************)
(* HierarchicalConfig used directly, as its unit tests do: get() for one   *)
(* device or the other, and a caller that changes the map it was given:    *)
(* at the top level (a key is bound to a value of the caller) or below (an *)
(* object reached through a value is changed in place; a string cannot     *)
(* be).  Changing the metadata in place can change the device's role and   *)
(* site.  touched holds the devices whose map had an object changed through *)
(* a value that came from a shared layer.                                  *)
(***************************************************************************)
InitConfig ==
    /\ mode = "commit"
    /\ pc = "config"
    /\ idx = 1
    /\ attempt = 0
    /\ successes = [ok |-> <<>>, failed |-> <<>>]
    /\ diffs = [k \in DiffKeys |-> <<>>]
    /\ ret = -1
    /\ transport = "junos"
    /\ rawIdx = 0
    /\ devState = "old"
    /\ store = NoStore
    /\ session = "none"
    /\ failure = "none"
    /\ sdiff = EmptyDiff
    /\ rpcs = <<>>
    /\ closeCalls = 0
    /\ exc = "none"
    /\ result = NoResult
    /\ prompts = 0
    /\ answer = "-"
    /\ seen = "-"
    /\ calls = 0
    /\ raised = 0
    /\ commitCount = 0
    /\ committedDiffs = {}
    /\ skippedDiffs = {}
    /\ boundCommitted = {}
    /\ boundSkipped = {}
    /\ call = "-"
    /\ workers = [w \in Workers |-> IdleWorker]
    /\ outdir = {}
    /\ \E l \in LayerChoices :
          hc = [layers |-> l, meta |-> [d \in ConfigDevs |-> [role |-> "roleA", site |-> "siteA"]],
                dirty |-> {}, dev |-> "-", exc |-> "none", resolved |-> <<>>, last |-> "-",
                touched |-> {}]
    /\ devices = NoCatalog
    /\ colored = NoText

ConfigFrame ==
    UNCHANGED <<pc, orchVars, envVars, store, sessVars, histVars, call, workers, outdir, devices, colored>>

HierarchicalConfig_get ==
    /\ pc = "config"
    /\ \E d \in ConfigDevs :
          hc' = [hc EXCEPT !.dev = d, !.exc = get(hc, d).exc, !.resolved = get(hc, d).resolved,
                           !.last = "get"]
    /\ ConfigFrame

mutate_top ==
    /\ pc = "config"
    /\ \E k \in DOMAIN hc.resolved :
          hc' = [hc EXCEPT !.resolved[k] = [layer |-> "caller", obj |-> <<"caller", hc.dev, k>>,
                                            alias |-> FALSE, content |-> "mutated"],
                           !.last = "mutate"]
    /\ ConfigFrame

mutate_nested ==
    /\ pc = "config"
    /\ \E k \in DOMAIN hc.resolved :
          LET v == hc.resolved[k]
              t == IF v.layer \in SharedLayers THEN hc.touched \cup {hc.dev} ELSE hc.touched
          IN /\ ~(v.layer = "injected" /\ k = "hostname")
             /\ IF ~v.alias
                THEN hc' = [hc EXCEPT !.resolved[k].content = "mutated", !.touched = t,
                                      !.last = "mutate"]
                ELSE IF v.layer = "injected"
                THEN \E f \in {"role", "site"} :
                        hc' = [hc EXCEPT !.meta[hc.dev][f] = "other", !.last = "mutate"]
                ELSE hc' = [hc EXCEPT !.dirty = @ \cup {v.obj}, !.touched = t, !.last = "mutate"]
    /\ ConfigFrame

NextConfig ==
    \/ HierarchicalConfig_get
    \/ mutate_top
    \/ mutate_nested

SpecConfig == InitConfig /\ [][NextConfig]_vars

(***************************************************************************)
(* The Devices catalog used directly, as its unit tests do: a catalog      *)
(* built from a devices file (any insertion order of devices with distinct *)
(* fqdn), then queries.                                                    *)
(***************************************************************************)
FqdnPool == {<<"a", "1">>, <<"b", "1">>, <<"a", "2">>}
RolePool == {<<"A">>, <<"B">>}
SitePool == {<<"X">>, <<"Y">>}

DevicePool == [fqdn : FqdnPool, role : RolePool, site : SitePool]

\* The sequences of devices a devices file can give: its keys are distinct.
RECURSIVE Orderings(_)
Orderings(names) ==
    IF names = {} THEN {<<>>}
    ELSE UNION {{<<d>> \o t : d \in {x \in DevicePool : x.fqdn = n}, t \in Orderings(names \ {n})} :
                  n \in names}

Catalogs == UNION {Orderings(names) : names \in SUBSET FqdnPool}

\* The query strings tried: role and site queries with and without a match,
\* an unknown and an empty prefix, an empty role, and globs.
Queries ==
    {role_prefix \o <<":">> \o r : r \in RolePool \cup {<<"C">>, <<>>}}
        \cup {site_prefix \o <<":">> \o x : x \in SitePool \cup {<<"Z">>}}
        \cup {<<"x", ":", "A">>, <<":", "A">>, role_prefix,
              <<"*">>, <<"a", "*">>, <<"?", "1">>, <<"a", "1">>, <<"b", "?">>, <<"*", "2">>,
              <<"c", "*">>}

InitDevices ==
    /\ mode = "commit"
    /\ pc = "catalog"
    /\ idx = 1
    /\ attempt = 0
    /\ successes = [ok |-> <<>>, failed |-> <<>>]
    /\ diffs = [k \in DiffKeys |-> <<>>]
    /\ ret = -1
    /\ transport = "junos"
    /\ rawIdx = 0
    /\ devState = "old"
    /\ store = NoStore
    /\ session = "none"
    /\ failure = "none"
    /\ sdiff = EmptyDiff
    /\ rpcs = <<>>
    /\ closeCalls = 0
    /\ exc = "none"
    /\ result = NoResult
    /\ prompts = 0
    /\ answer = "-"
    /\ seen = "-"
    /\ calls = 0
    /\ raised = 0
    /\ commitCount = 0
    /\ committedDiffs = {}
    /\ skippedDiffs = {}
    /\ boundCommitted = {}
    /\ boundSkipped = {}
    /\ call = "-"
    /\ workers = [w \in Workers |-> IdleWorker]
    /\ outdir = {}
    /\ hc = NoConfig
    /\ \E inserted \in Catalogs :
          devices = [catalog |-> Devices(inserted), query |-> "-", exc |-> "none", results |-> <<>>]
    /\ colored = NoText

Devices_query ==
    /\ pc = "catalog"
    /\ \E q \in Queries :
          devices' = [devices EXCEPT !.query = q,
                                     !.exc = query(devices.catalog, q).exc,
                                     !.results = query(devices.catalog, q).results]
    /\ UNCHANGED <<pc, orchVars, envVars, store, sessVars, histVars, call, workers, outdir, hc, colored>>

NextDevices == Devices_query

SpecDevices == InitDevices /\ [][NextDevices]_vars

(***************************************************************************)
(* color_diff used directly, as the transports' tests do: a diff text,     *)
(* then the call.  The texts are all the character sequences of at most    *)
(* MaxText characters over the line markers, a letter and the line         *)
(* boundaries.                                                             *)
(***************************************************************************)
TextChars == {"+", "-", "!", "a", NL, CR}

RECURSIVE TextsOf(_)
TextsOf(n) == IF n = 0 THEN {<<>>} ELSE {<<>>} \cup {<<c>> \o t : c \in TextChars, t \in TextsOf(n - 1)}

Texts == TextsOf(MaxText)

InitColor ==
    /\ mode = "diff"
    /\ pc = "color"
    /\ idx = 1
    /\ attempt = 0
    /\ successes = [ok |-> <<>>, failed |-> <<>>]
    /\ diffs = [k \in DiffKeys |-> <<>>]
    /\ ret = -1
    /\ transport = "junos"
    /\ rawIdx = 0
    /\ devState = "old"
    /\ store = NoStore
    /\ session = "none"
    /\ failure = "none"
    /\ sdiff = EmptyDiff
    /\ rpcs = <<>>
    /\ closeCalls = 0
    /\ exc = "none"
    /\ result = NoResult
    /\ prompts = 0
    /\ answer = "-"
    /\ seen = "-"
    /\ calls = 0
    /\ raised = 0
    /\ commitCount = 0
    /\ committedDiffs = {}
    /\ skippedDiffs = {}
    /\ boundCommitted = {}
    /\ boundSkipped = {}
    /\ call = "-"
    /\ workers = [w \in Workers |-> IdleWorker]
    /\ outdir = {}
    /\ hc = NoConfig
    /\ devices = NoCatalog
    /\ \E d \in Texts : colored = [diff |-> d, called |-> FALSE, out |-> <<>>]

transports_color_diff ==
    /\ pc = "color"
    /\ ~colored.called
    /\ colored' = [colored EXCEPT !.called = TRUE, !.out = color_diff(colored.diff)]
    /\ UNCHANGED <<pc, orchVars, envVars, store, sessVars, histVars, call, workers, outdir, hc, devices>>

NextColor == transports_color_diff

SpecColor == InitColor /\ [][NextColor]_vars

(***************************************************************************)
(* Properties.                                                             *)
(***************************************************************************)
InSeq(x, q) == \E i \in 1..Len(q) : q[i] = x

\* The device whose processing ended last.
Last == idx - 1

\* The with body of the callback is running: close() has not been called.
BodyPcs == {"j_lock", "j_load", "j_diff", "j_approve", "j_commit", "j_confirm", "j_check",
            "r_diff", "r_approve", "r_set", "r_accept", "r_validate"}

\* The commit request is sent in this session, or is the next thing it does.
CommitSent == Has(rpcs, CommitRpcs) \/ pc \in {"j_commit", "r_set"}

\* C1: a device whose callback raised HomerTimeoutError or HomerConnectError on
\* every attempt had exactly TIMEOUT_ATTEMPTS invocations, one after the other
\* (attempt k starts when k-1 invocations have ended, with no session left),
\* and is recorded in the failed list with the empty string as its diff.
C1_RetryBound ==
    /\ calls <= TIMEOUT_ATTEMPTS
    /\ (pc = "callback" => calls = attempt - 1 /\ raised = calls /\ session = "none")
    /\ (pc \in {"loop", "done"} /\ calls > 0 /\ raised = calls) =>
          /\ calls = TIMEOUT_ATTEMPTS
          /\ InSeq(Last, successes.failed)
          /\ ~InSeq(Last, successes.ok)
          /\ InSeq(Last, diffs[EmptyDiff])
          /\ \A k \in DiffKeys \ {EmptyDiff} : ~InSeq(Last, diffs[k])

C1_Witness ==
    pc = "loop" /\ mode = "commit" /\ calls = TIMEOUT_ATTEMPTS /\ raised = TIMEOUT_ATTEMPTS

\* C2: in a commit run the commit request is sent on a session only if the diff
\* that session computed is non-empty and approved: the store's status for it
\* was approved, or the prompt of that session answered 'yes' or 'all'.  After
\* 'no', 'none', no TTY or too many invalid answers, and for a diff the store
\* has rejected, no commit request is sent.
C2_CommitOnlyIfApproved ==
    /\ CommitSent =>
          /\ mode = "commit"
          /\ sdiff # EmptyDiff
          /\ \/ seen = "True" /\ prompts = 0 /\ sdiff \in store.approved
             \/ seen = "None" /\ prompts = 1 /\ answer \in {"yes", "all"}
    /\ (answer \in {"no", "none", "notty", "invalid"} \/ seen = "False") => ~CommitSent

C2_Witness ==
    Has(rpcs, CommitRpcs) /\ answer = "yes" /\ transport = "json_rpc"

\* C3 as claimed: the commit request is sent at most once for a device over all
\* its attempts.
C3_AtMostOnce == commitCount <= 1

\* C3, amended: the commit request is sent at most once per attempt, so at most
\* TIMEOUT_ATTEMPTS times for a device, and again only on the retry that
\* follows an attempt ended by HomerTimeoutError or HomerConnectError.
C3_AtMostOncePerAttempt ==
    /\ Count(rpcs, CommitRpcs) <= 1
    /\ commitCount <= calls
    /\ commitCount <= TIMEOUT_ATTEMPTS
    /\ commitCount <= raised + 1

C3_Witness ==
    mode = "commit" /\ commitCount = 2 /\ Has(rpcs, CommitRpcs) /\ attempt = 2

\* C4: no error raised while a device is processed aborts the run.
C4_NeverAborts == pc # "aborted"

\* C5: close() is called exactly once on every session connected_device
\* opened, however the body ended: not before the body ends, once when the
\* callback is left.
C5_ClosedOnce ==
    /\ closeCalls <= 1
    /\ (pc \in BodyPcs => session = "open" /\ closeCalls = 0)
    /\ (pc = "returned" /\ session # "none" => closeCalls = 1)
    /\ (session = "none" => closeCalls = 0)

C5_Witness ==
    pc = "returned" /\ session # "none" /\ closeCalls = 1 /\ exc = "HomerTimeoutError"

\* C6: junos close() returns normally whatever the unlock and the transport's
\* close do, and the transport's close always follows the unlock: when the
\* callback is left the session's last two requests are the unlock and the
\* close.
ClosedNormally ==
    /\ Len(rpcs) >= 2
    /\ rpcs[Len(rpcs) - 1] = "unlock"
    /\ rpcs[Len(rpcs)] = "close"

C6_CloseNeverThrows ==
    (pc = "returned" /\ transport = "junos" /\ session # "none") =>
        /\ ClosedNormally
        /\ exc \notin {"UnlockError", "RpcTimeoutError", "TimeoutExpiredError"}

\* C7: in a commit run a device whose non-empty diff was rejected ('no' or
\* 'none' at the prompt, or a diff the store has rejected) is recorded in the
\* failed list.
Rejected == sdiff # EmptyDiff /\ (answer \in {"no", "none"} \/ seen = "False")

C7_RejectedIsFailed ==
    [][(pc = "returned" /\ mode = "commit" /\ Rejected) => InSeq(idx, successes'.failed)]_vars

\* C8 as claimed: no diff text is both committed for one session and left
\* uncommitted for another.
C8_SameDecision == committedDiffs \cap skippedDiffs = {}

\* C8, amended: once a diff was decided for all devices (an 'all' or 'none'
\* answer), every session that computes this diff gets that decision: the
\* commit request is sent for all of them or for none.
C8_SameDecisionForAll == boundCommitted \cap boundSkipped = {}

C8_Witness ==
    /\ idx = 2
    /\ Has(rpcs, CommitRpcs)
    /\ prompts = 0
    /\ sdiff \in boundCommitted
    /\ sdiff \in skippedDiffs

\* C9: after an 'all' (or 'none') answer for a diff, every later session that
\* computes this diff sends the commit request (or none) without a prompt; the
\* prompt is shown exactly for a non-empty diff whose status is unknown.
DecidedBefore == seen # "-" /\ sdiff \in boundCommitted \cup boundSkipped /\ answer \notin {"all", "none"}

C10_StoreConsistent ==
    /\ [](store.approved \cap store.rejected = {})
    /\ [][\A d \in Diffs : (status(store, d) # "None" /\ call' # "reset")
                              => status(store', d) = status(store, d)]_vars

C10_Witness ==
    /\ call = "approve"
    /\ exc = "HomerDiffError"
    /\ sdiff \in store.rejected
    /\ store.approved # {}

\* C11: approve(d) of a rejected diff and reject(d) of an approved diff raise
\* HomerDiffError and change nothing: both sets, and so status(d), are after
\* the failed call what they were before it.
C11_ConflictRaises ==
    [][/\ (call' = "approve" /\ sdiff' \in store.rejected) => exc' = "HomerDiffError"
       /\ (call' = "reject" /\ sdiff' \in store.approved) => exc' = "HomerDiffError"
       /\ (exc' = "HomerDiffError") =>
             /\ call' \in {"approve", "reject"}
             /\ store' = store
             /\ status(store', sdiff') = status(store, sdiff')
             /\ status(store, sdiff') = (IF call' = "approve" THEN "False" ELSE "True")]_vars

C11_Witness ==
    /\ call = "reject"
    /\ exc = "HomerDiffError"
    /\ sdiff \in store.approved
    /\ sdiff \notin store.rejected

\* C12: status(d) is approved exactly when an approve(d) succeeded since the
\* last reset and rejected exactly when a reject(d) succeeded since then: a
\* successful approve(d) or reject(d) gives d that status, the status of a
\* diff changes only by such a call on an undecided diff or by reset, approve
\* of an approved diff and reject of a rejected one raise nothing and change
\* nothing, and after reset every diff is unknown.
C12_StatusTracksCalls ==
    [][/\ (call' = "approve" /\ exc' = "none") => status(store', sdiff') = "True"
       /\ (call' = "reject" /\ exc' = "none") => status(store', sdiff') = "False"
       /\ \A d \in Diffs :
             status(store', d) # status(store, d) =>
                \/ call' = "reset" /\ status(store', d) = "None"
                \/ /\ call' \in {"approve", "reject"}
                   /\ sdiff' = d
                   /\ exc' = "none"
                   /\ status(store, d) = "None"
       /\ (call' = "approve" /\ sdiff' \in store.approved) => (exc' = "none" /\ store' = store)
       /\ (call' = "reject" /\ sdiff' \in store.rejected) => (exc' = "none" /\ store' = store)
       /\ (call' = "reset") => \A d \in Diffs : status(DiffStore(store'), d) = "None"
       /\ (call' = "status") => seen' = status(store', sdiff')]_vars

C12_Witness ==
    /\ call = "status"
    /\ seen = "False"
    /\ sdiff \in store.rejected
    /\ store.approved # {}

\* C13: with several threads calling the one DiffStore, approve and reject
\* exclude each other: of an approve(d) and a reject(d) that both ended,
\* exactly one succeeded and the other raised HomerDiffError, and no diff is
\* in both sets.
C13_MutualExclusion ==
    /\ store.approved \cap store.rejected = {}
    /\ \A w1 \in Workers, w2 \in Workers :
          (/\ workers[w1].pc = "done" /\ workers[w1].op = "approve"
           /\ workers[w2].pc = "done" /\ workers[w2].op = "reject"
           /\ workers[w1].diff = workers[w2].diff) =>
              /\ (workers[w1].exc = "none") # (workers[w2].exc = "none")
              /\ (workers[w1].diff \in store.approved) # (workers[w1].diff \in store.rejected)

\* commit() was called on the current session, found the diff empty and
\* is_retry false.
EmptyFirst == mode = "commit" /\ seen = "empty" /\ ~is_retry(attempt)

\* What commit() itself does on an empty diff with is_retry false: no prompt,
\* no commit, confirming or validate request, and a normal return, which
\* _device_commit turns into (True, '').
EmptySkipped ==
    EmptyFirst =>
        /\ prompts = 0
        /\ ~Has(rpcs, CommitRpcs \cup ConfirmRpcs \cup {"jr_validate"})
        /\ failure = "none"
        /\ (pc \in {"j_unlock", "r_close"} => exc = "none" /\ result = Result(TRUE, EmptyDiff))

\* C14: commit() with is_retry false and an empty diff, on either transport,
\* shows no prompt, sends no commit and no commit-check or validate request,
\* returns normally, and the device is recorded as succeeded.
C14_EmptyDiffSkip ==
    /\ []EmptySkipped
    /\ [][(pc = "returned" /\ EmptyFirst) => InSeq(idx, successes'.ok)]_vars

\* commit() was called on the current junos session with is_retry true and
\* found the diff empty.
EmptyRetry == mode = "commit" /\ transport = "junos" /\ seen = "empty" /\ is_retry(attempt)

\* C15: junos commit() with is_retry true and an empty diff sends exactly one
\* commit_check request, no commit request, and shows no prompt.
C15_EmptyRetryChecks ==
    EmptyRetry =>
        /\ prompts = 0
        /\ ~Has(rpcs, {"commit"})
        /\ pc \in {"j_confirm", "j_unlock", "j_close", "returned"}
        /\ Count(rpcs, {"commit_check"}) = (IF pc = "j_confirm" THEN 0 ELSE 1)

C15_Witness ==
    /\ EmptyRetry
    /\ pc = "returned"
    /\ Count(rpcs, {"commit_check"}) = 1
    /\ devState = "new"
    /\ commitCount = 1

\* The exceptions with which a request times out (junos, requests).
Timeouts == {"RpcTimeoutError", "Timeout"}

\* C16: an approved non-empty commit has two ordered stages: the confirming
\* request (commit_check, confirmed-accept) is sent only right after the
\* commit-with-confirmation request, and only if that one returned without
\* error; when the first stage times out commit() raises HomerTimeoutError
\* and the session sends no confirming request.
C16_TwoStageOrdered ==
    /\ []((mode = "commit" /\ sdiff # EmptyDiff) =>
            /\ (pc \in {"j_confirm", "r_accept"}) =>
                  /\ failure = "none"
                  /\ rpcs # <<>>
                  /\ rpcs[Len(rpcs)] \in CommitRpcs
            /\ Has(rpcs, ConfirmRpcs) =>
                  \E i \in 1..(Len(rpcs) - 1) :
                     /\ rpcs[i] \in CommitRpcs
                     /\ rpcs[i + 1] \in ConfirmRpcs
                     /\ \A j \in 1..Len(rpcs) : rpcs[j] \in ConfirmRpcs => j = i + 1)
    /\ [][/\ (pc \in {"j_commit", "r_set"} /\ failure' \in Timeouts) =>
                /\ exc' = "HomerTimeoutError"
                /\ pc' \in {"j_unlock", "r_close"}
                /\ ~Has(rpcs', ConfirmRpcs)
          /\ (mode = "commit" /\ failure # "none" /\ ~Has(rpcs, ConfirmRpcs)) =>
                ~Has(rpcs', ConfirmRpcs)]_vars

C16_Witness ==
    /\ pc = "returned"
    /\ transport = "junos"
    /\ failure = "RpcTimeoutError"
    /\ exc = "HomerTimeoutError"
    /\ Has(rpcs, CommitRpcs)
    /\ ~Has(rpcs, ConfirmRpcs)

\* junos commit() has ended with a failure (an exception, which
\* _device_commit re-raises or turns into (False, '')) after the load of the
\* candidate returned; close() has not been called yet.
CommitFailedAfterLoad ==
    /\ mode = "commit"
    /\ transport = "junos"
    /\ pc = "j_unlock"
    /\ Has(rpcs, {"diff"})
    /\ (exc # "none" \/ ~result.success)

\* C17: in the junos commit path, when commit() ends with a failure after the
\* candidate was loaded (diff error, rejection, commit error, commit timeout,
\* commit-check error), a rollback was requested before the session is closed.
C17_RollbackOnFailure == CommitFailedAfterLoad => Has(rpcs, {"rollback"})

\* The load of the candidate failed with ConfigLoadError in the current
\* session.
LoadFailed == failure = "ConfigLoadError"

\* What the transport and the callback make of a load error: in the commit
\* path no commit and no rollback request, and ConfigLoadError leaves commit()
\* (_device_commit turns it into (False, '')); in the diff path commit_check()
\* returns (False, None).
LoadErrorResult ==
    (LoadFailed /\ pc = "j_unlock") =>
        /\ exc = "none"
        /\ ~Has(rpcs, {"commit", "diff"})
        /\ IF mode = "commit"
           THEN result = Result(FALSE, EmptyDiff) /\ ~Has(rpcs, {"rollback"})
           ELSE result = Result(FALSE, NoneDiff)

\* The device of the attempt that ends here is recorded failed and not tried
\* again.
RecordedFailedNoRetry ==
    /\ pc' = "loop"
    /\ idx' = idx + 1
    /\ InSeq(idx, successes'.failed)
    /\ ~InSeq(idx, successes'.ok)

\* C18: a load error is not retried: the callback is invoked once for the
\* device, the device is recorded failed (in diff mode with diff None), and in
\* the junos commit path ConfigLoadError leaves commit() with neither a commit
\* nor a rollback request sent.
C18_LoadErrorNoRetry ==
    /\ []LoadErrorResult
    /\ [][(pc = "returned" /\ LoadFailed) =>
             /\ RecordedFailedNoRetry
             /\ (attempt = 1 => calls = 1)
             /\ (mode = "diff" => InSeq(idx, diffs'[NoneDiff]))]_vars

\* The callback attempt ended with an error that _execute does not retry: it
\* returned a failure, or raised something other than HomerTimeoutError and
\* HomerConnectError.
EndedWithOtherError ==
    /\ pc = "returned"
    /\ exc \notin Retried
    /\ (exc # "none" \/ ~result.success)

\* C19: a callback attempt that ends with an error other than
\* HomerTimeoutError or HomerConnectError is not repeated and the device is
\* recorded failed (invoked once when it was the first attempt); a junos
\* CommitError leaves commit() as HomerError.
C19_OtherErrorsNotRetried ==
    /\ [][EndedWithOtherError => (RecordedFailedNoRetry /\ (attempt = 1 => calls = 1))]_vars
    /\ [][(pc \in {"j_commit", "j_confirm"} /\ failure' = "CommitError") =>
             (exc' = "none" /\ result' = Result(FALSE, EmptyDiff))]_vars
    /\ junos_commit_except("CommitError") = "HomerError"

\* C20: when a request made during a diff or commit callback (lock, load,
\* diff, commit check or validate, commit, confirm) times out, the callback
\* ends with HomerTimeoutError and _execute tries the device again, up to
\* TIMEOUT_ATTEMPTS attempts in all.
C20_TimeoutsRetried ==
    /\ []((pc \in {"j_unlock", "r_close"} /\ failure \in Timeouts) => exc = "HomerTimeoutError")
    /\ [][(pc = "returned" /\ failure \in Timeouts) =>
             IF attempt < TIMEOUT_ATTEMPTS
             THEN pc' = "callback" /\ attempt' = attempt + 1 /\ idx' = idx
             ELSE RecordedFailedNoRetry]_vars

\* The connection to the device of the current attempt failed: the junos
\* constructor raised ConnectError; on json_rpc, whose constructor opens no
\* connection, the first request of the session (the diff request) raised
\* requests' connection error.
ConnectFailed ==
    \/ transport = "junos" /\ failure = "ConnectError"
    \/ /\ transport = "json_rpc"
       /\ failure = "RequestException"
       /\ rpcs # <<>>
       /\ ~Has(rpcs, {"jr_set", "jr_accept", "jr_validate"})

\* C21: on either transport a failure to connect is reported as
\* HomerConnectError before any session operation runs (the body of
\* connected_device is not executed, close() is not called), and _execute
\* tries the device again, up to TIMEOUT_ATTEMPTS attempts in all.
C21_ConnectErrorRetried ==
    /\ [](ConnectFailed =>
            /\ exc = "HomerConnectError"
            /\ session = "none"
            /\ closeCalls = 0
            /\ rpcs = <<>>)
    /\ [][(pc = "returned" /\ ConnectFailed) =>
             IF attempt < TIMEOUT_ATTEMPTS
             THEN pc' = "callback" /\ attempt' = attempt + 1 /\ idx' = idx
             ELSE RecordedFailedNoRetry]_vars

\* The check requests of the check-only path.
CheckRpcs == {"commit_check", "jr_validate"}

\* commit_check() of the current session is over, and its _prepare had
\* returned a diff: the candidate was loaded and compared.
PrepareReturned ==
    /\ mode = "diff"
    /\ pc \in {"j_unlock", "r_close"}
    /\ Has(rpcs, {"diff", "jr_diff"})
    /\ failure = "none" \/ Has(rpcs, CheckRpcs)

\* C22: the check-only path (commit_check, used by diff) performs the
\* commit-check (dry validate) request on every session whose candidate was
\* loaded, whether the diff is empty or not.
C22_AlwaysChecks == PrepareReturned => Has(rpcs, CheckRpcs)

\* C22 as the code has it: the check request is sent exactly when the diff is
\* not empty; on an empty diff commit_check() returns (True, '') without it.
C22_ChecksNonEmpty ==
    PrepareReturned =>
        IF sdiff = EmptyDiff
        THEN ~Has(rpcs, CheckRpcs) /\ exc = "none" /\ result = Result(TRUE, EmptyDiff)
        ELSE Has(rpcs, CheckRpcs)

C22_Witness ==
    /\ PrepareReturned
    /\ transport = "junos"
    /\ sdiff # EmptyDiff
    /\ failure = "none"
    /\ Has(rpcs, {"commit_check"})

\* C23: the check-only path never changes live device state: junos
\* commit_check never issues a commit request, never raises, and on every
\* path (prepare failure, empty diff, commit-check success, commit-check
\* error) issues a rollback of the staged candidate before it returns, also
\* when the rollback itself fails.
C23_CheckOnlyRollsBack ==
    (mode = "diff" /\ transport = "junos") =>
        /\ ~Has(rpcs, CommitRpcs)
        /\ devState = "old"
        /\ pc = "j_unlock" =>
              /\ exc = "none"
              /\ result # NoResult
              /\ rpcs[Len(rpcs)] = "rollback"

C23_Witness ==
    /\ mode = "diff"
    /\ transport = "junos"
    /\ pc = "j_unlock"
    /\ failure = "CommitError"
    /\ Has(rpcs, {"commit_check"})
    /\ rpcs[Len(rpcs)] = "rollback"

\* The ANSI sequences that select a colour.
ColorCodes == {Esc(DIFF_ADDED_CODE), Esc(DIFF_REMOVED_CODE), Esc(DIFF_MOVED_CODE)}

HasColor(d) == \E i \in 1..Len(d) : d[i] \in ColorCodes \cup {Esc(39)}

\* A line of the raw diff r starts with one of the markers '+', '-', '!'.
HasMarkedLine(r) ==
    \E i \in 1..Len(r) : r[i] \in {"+", "-", "!"} /\ (i = 1 \/ r[i - 1] = NL)

\* The diff text the device reported to the _prepare of the current session.
ReportedRaw == IF devState = "old" THEN RawDiff(rawIdx) ELSE RawDiff(0)

\* The session is about to consult the DiffStore about its diff.
AtStore == pc \in {"j_approve", "r_approve"} /\ sdiff # EmptyDiff

StoredDiffs == store.approved \cup store.rejected

\* color_diff of each text a device may report.
Colored == [r \in RawDiffs |-> color_diff(r)]

\* The reported texts that color_diff changes: those with a marked line.
Marked == {r \in RawDiffs : HasMarkedLine(r)}

\* C24: the string a session passes to DiffStore.status, approve and reject
\* is the uncolored device-reported diff text: it contains no ANSI colour
\* sequence and equals the raw diff returned by the device.
C24_StoredUncolored ==
    /\ AtStore => sdiff = ReportedRaw /\ ~HasColor(sdiff)
    /\ \A d \in StoredDiffs : d \in RawDiffs /\ ~HasColor(d)

\* C24 as the code has it: the string is color_diff of the reported text; it
\* carries the colour sequences whenever a line of the text is marked.
C24_StoredColored ==
    /\ AtStore =>
          /\ sdiff = Colored[ReportedRaw]
          /\ ReportedRaw \in Marked => HasColor(sdiff) /\ sdiff # ReportedRaw
    /\ \A d \in StoredDiffs :
          \E r \in RawDiffs : d = Colored[r] /\ (r \in Marked => HasColor(d) /\ d # r)

C24_Witness ==
    /\ pc = "j_commit"
    /\ sdiff \in store.approved
    /\ HasColor(sdiff)
    /\ sdiff = Colored[ReportedRaw]
    /\ sdiff # ReportedRaw

\* A device is in the failed list; a device is listed under a non-empty
\* diff.
SomeFailed == \E d \in Devs : InSeq(d, successes.failed)

SomeDiff == \E k \in Diffs \ {EmptyDiff} : \E d \in Devs : InSeq(d, diffs[k])

\* C25: generate and commit return 1 if at least one device is in the
\* failed list and 0 otherwise; diff returns 1 if at least one device
\* failed, otherwise DIFF_EXIT_CODE (99) if at least one device reported a
\* non-empty diff, otherwise 0; 99 is never returned when a device failed.
C25_ExitStatus ==
    pc = "done" =>
        /\ ret = IF SomeFailed THEN 1
                 ELSE IF mode = "diff" /\ SomeDiff THEN 99
                 ELSE 0
        /\ ret = 99 => mode = "diff" /\ ~SomeFailed

C25_Witness ==
    /\ pc = "done"
    /\ mode = "diff"
    /\ ret = 99
    /\ Len(successes.ok) = NumDevices

\* A diff run in which one device failed and another has a diff returns 1.
C25_WitnessFailed ==
    /\ pc = "done"
    /\ mode = "diff"
    /\ SomeFailed
    /\ SomeDiff
    /\ ret = 1

\* Device d is listed under no key of the diffs dictionary.
NoDiffEntry(d) == \A k \in DiffKeys : ~InSeq(d, diffs[k])

\* C26: a device whose configuration resolution or rendering raises
\* HomerError is recorded in the failed list, no callback is invoked for it
\* (no output file written, no session opened), and the loop continues with
\* the next selected device.
C26_RenderFailureRecorded ==
    /\ []((pc = "loop" /\ idx > 1 /\ calls = 0) =>
            /\ InSeq(Last, successes.failed)
            /\ ~InSeq(Last, successes.ok)
            /\ NoDiffEntry(Last))
    /\ [][(pc = "loop" /\ pc' = "loop") =>
             /\ idx' = idx + 1
             /\ successes'.failed = Append(successes.failed, idx)
             /\ successes'.ok = successes.ok
             /\ diffs' = diffs
             /\ calls' = 0
             /\ session' = "none"
             /\ rpcs' = <<>>]_vars

\* The rendering of the first device failed and the second device was worked
\* on and recorded.
C26_Witness ==
    /\ pc = "loop"
    /\ idx = 3
    /\ InSeq(1, successes.failed)
    /\ NoDiffEntry(1)
    /\ InSeq(2, successes.ok)
    /\ calls > 0

\* The files of the directory that carry the output extension, and the rest.
OutFiles(dir) == {e \in dir : e.kind = "file" /\ e.suffix = OUT_EXTENSION}

OtherEntries(dir) == dir \ OutFiles(dir)

\* C27: after generate(query) returns, the files with extension '.out'
\* directly in the output directory are exactly '<fqdn>.out' for each
\* selected device that rendered successfully (every '.out' file present
\* before the run and not rewritten is gone), while subdirectories and files
\* with another extension are unchanged.
C27_OutDirExact ==
    /\ []((pc = "done" /\ mode = "generate") =>
            OutFiles(outdir) = {File(d, OUT_EXTENSION, "new") : d \in {x \in Devs : InSeq(x, successes.ok)}})
    /\ [][OtherEntries(outdir') = OtherEntries(outdir)]_vars

\* A run that found a stale file, a subdirectory and a file with another
\* extension: the first device was written, the second failed to render.
C27_Witness ==
    /\ pc = "done"
    /\ mode = "generate"
    /\ InSeq(1, successes.ok)
    /\ InSeq(2, successes.failed)
    /\ File(1, OUT_EXTENSION, "new") \in outdir
    /\ File(0, OUT_EXTENSION, "old") \notin outdir
    /\ OtherEntries(outdir) = OtherEntries(InitEntries)

\* get() has just returned or raised for device hc.dev.
AfterGet == pc = "config" /\ hc.last = "get"

\* Layer l, or the injected pair, defines key k for the device of the last
\* get().
Defines(l, k) ==
    IF l = "injected" THEN k \in {"metadata", "hostname"}
    ELSE k \in DOMAIN LayerDict(hc, l, hc.dev)

PublicKeys == {k \in LayerKeys \cup {"metadata"} :
                  \E l \in PublicShared \cup {"device_config", "injected"} : Defines(l, k)}

PrivateKeys == {k \in LayerKeys : \E l \in PrivateShared \cup {"device_private"} : Defines(l, k)}

\* C28: get(device) fails with HomerError whenever a top-level key is present
\* both in the merged public side (common, role, site, device config,
\* injected 'metadata' and 'hostname') and in the merged private side
\* (common, role, site, device private); it never returns a map in which one
\* side silently wins.
C28_ConflictRaises ==
    AfterGet =>
        /\ PublicKeys \cap PrivateKeys # {} => hc.exc = "HomerError" /\ hc.resolved = <<>>
        /\ hc.exc = "none" =>
              /\ PublicKeys \cap PrivateKeys = {}
              /\ DOMAIN hc.resolved = PublicKeys \cup PrivateKeys

\* The case of the unit test: a key of the public role layer is also in the
\* device's private configuration.
C28_Witness ==
    /\ AfterGet
    /\ hc.exc = "HomerError"
    /\ Defines("public_roles", "k")
    /\ Defines("device_private", "k")

\* How specific a layer is.
Rank(l) ==
    IF l \in {"public_common", "private_common"} THEN 1
    ELSE IF l \in {"public_roles", "private_roles"} THEN 2
    ELSE IF l \in {"public_sites", "private_sites"} THEN 3
    ELSE IF l \in {"device_config", "device_private"} THEN 4
    ELSE 5

\* C29: for every device and every top-level key, get(device)[key] is the
\* value of the most specific layer that defines the key, in the order
\* common < role < site < device < injected on the public side and
\* common < role < site < device on the private side.
C29_MostSpecificWins ==
    (AfterGet /\ hc.exc = "none") =>
        \A k \in DOMAIN hc.resolved :
            /\ Defines(hc.resolved[k].layer, k)
            /\ \A l \in Layers \cup {"injected"} :
                  Defines(l, k) => Rank(l) <= Rank(hc.resolved[k].layer)
            /\ hc.resolved[k].obj[3] = k
            /\ Content(hc.resolved[k], hc.dirty) =
                  (IF hc.resolved[k].obj \in hc.dirty THEN "mutated" ELSE "loaded")

C29_Witness ==
    /\ AfterGet
    /\ hc.exc = "none"
    /\ Defines("public_common", "k")
    /\ Defines("public_roles", "k")
    /\ Defines("public_sites", "k")
    /\ ~Defines("device_config", "k")
    /\ hc.resolved["k"].layer = "public_sites"
    /\ Defines("public_common", "hostname")
    /\ hc.resolved["hostname"].layer = "injected"

\* C30: mutating, at any depth, the map returned by get(deviceA) does not
\* change the result of a later get(deviceB) or get(deviceA), for values that
\* come from the shared common, role and site layers, public or private: the
\* objects of those layers are never changed, and a later get() returns their
\* values as they were loaded.
C30_DeepCopyIsolation ==
    /\ pc = "config" => \A o \in hc.dirty : o[1] \notin SharedLayers
    /\ (AfterGet /\ hc.exc = "none") =>
          \A k \in DOMAIN hc.resolved :
              hc.resolved[k].layer \in SharedLayers =>
                  /\ ~hc.resolved[k].alias
                  /\ Content(hc.resolved[k], hc.dirty) = "loaded"

\* The caller changed, through the map of deviceA, an object that came from a
\* shared layer, and then got the map of deviceB with a value of such a layer.
C30_Witness ==
    /\ AfterGet
    /\ hc.exc = "none"
    /\ hc.dev = "deviceB"
    /\ "deviceA" \in hc.touched
    /\ hc.resolved["k"].layer \in PublicShared

\* The same with a value of a private shared layer.
C30_WitnessPrivate ==
    /\ AfterGet
    /\ hc.exc = "none"
    /\ "deviceA" \in hc.touched
    /\ hc.resolved["k"].layer \in PrivateShared

\* query() has just returned or raised.
AfterQuery == pc = "catalog" /\ devices.query # "-"

\* The order of the characters, and of the names made of them.
Ord(ch) == CHOOSE i \in 1..6 : <<"1", "2", "A", "B", "a", "b">>[i] = ch

RECURSIVE NameLess(_, _)
NameLess(x, y) ==
    IF y = <<>> THEN FALSE
    ELSE IF x = <<>> THEN TRUE
    ELSE IF x[1] # y[1] THEN Ord(x[1]) < Ord(y[1])
    ELSE NameLess(Tail(x), Tail(y))

\* C31: Devices.query(selector) returns its result sorted by fqdn, whatever
\* the order in which the devices were inserted into the catalog.
C31_QuerySorted ==
    (AfterQuery /\ devices.exc = "none") =>
        \A i \in 1..(Len(devices.results) - 1) :
            NameLess(devices.results[i].fqdn, devices.results[i + 1].fqdn)

\* The devices of the catalog and of the last result, as sets.
CatalogSet == {devices.catalog.data[i] : i \in 1..Len(devices.catalog.data)}

ResultSet == {devices.results[i] : i \in 1..Len(devices.results)}

\* The length of the name taken by the first i elements of a pattern.
RECURSIVE Taken(_, _)
Taken(lens, i) == IF i = 0 THEN 0 ELSE lens[i] + Taken(lens, i - 1)

\* name matches pat as a shell glob: '*' stands for any run of characters,
\* '?' for one character, every other element for itself.
GlobMatches(name, pat) ==
    \E lens \in [1..Len(pat) -> 0..Len(name)] :
        /\ Taken(lens, Len(pat)) = Len(name)
        /\ \A i \in 1..Len(pat) :
              /\ pat[i] # "*" => lens[i] = 1
              /\ pat[i] \notin {"*", "?"} => name[Taken(lens, i)] = pat[i]

\* C32: query('role:X') returns exactly the catalog devices whose role is X,
\* query('site:Y') exactly those whose site is Y, and a selector without ':'
\* exactly those whose fqdn matches it as a shell glob; a prefix other than
\* 'role' or 'site' raises HomerError; a selector that matches nothing
\* returns an empty list and no error.
C32_QueryExact ==
    AfterQuery =>
        LET q == devices.query
            colon == \E i \in 1..Len(q) : q[i] = ":"
            isRole == Len(q) > 4 /\ SubSeq(q, 1, 5) = <<"r", "o", "l", "e", ":">>
            isSite == Len(q) > 4 /\ SubSeq(q, 1, 5) = <<"s", "i", "t", "e", ":">>
            expected == IF isRole THEN {d \in CatalogSet : d.role = SubSeq(q, 6, Len(q))}
                        ELSE IF isSite THEN {d \in CatalogSet : d.site = SubSeq(q, 6, Len(q))}
                        ELSE {d \in CatalogSet : GlobMatches(d.fqdn, q)}
        IN IF colon /\ ~isRole /\ ~isSite
           THEN devices.exc = "HomerError"
           ELSE /\ devices.exc = "none"
                /\ ResultSet = expected
                /\ Len(devices.results) = Cardinality(expected)

\* A role query that two devices answer and one does not.
C32_Witness ==
    /\ AfterQuery
    /\ devices.query = <<"r", "o", "l", "e", ":", "A">>
    /\ Len(devices.results) = 2
    /\ Cardinality(CatalogSet) = 3

\* A glob that matches two of three devices; a query without a match.
C32_WitnessGlob ==
    /\ AfterQuery
    /\ devices.query = <<"a", "*">>
    /\ Len(devices.results) = 2
    /\ Cardinality(CatalogSet) = 3

C32_WitnessEmpty ==
    /\ AfterQuery
    /\ devices.query = <<"s", "i", "t", "e", ":", "Z">>
    /\ devices.exc = "none"
    /\ devices.results = <<>>
    /\ CatalogSet # {}

\* The place of a junos request in the order of a session.
Stage(r) ==
    IF r = "lock" THEN 1
    ELSE IF r = "load" THEN 2
    ELSE IF r = "diff" THEN 3
    ELSE IF r \in {"rollback", "commit", "commit_check"} THEN 4
    ELSE IF r = "unlock" THEN 5
    ELSE 6

\* What a session may do between diff and unlock, or the beginning of it.
MiddleRuns ==
    {<<>>, <<"rollback">>, <<"commit">>, <<"commit", "commit_check">>, <<"commit_check">>,
     <<"commit_check", "rollback">>}

\* C33: within one junos session the requests are issued only in the order
\* lock, load, diff, then at most one of {rollback | commit followed by
\* commit_check | commit_check followed by rollback}, then unlock, then the
\* transport's close; no rollback, commit or commit_check is issued on a
\* session that did not acquire the lock and load the candidate, and nothing
\* is issued after close.
C33_SessionOrder ==
    transport = "junos" =>
        /\ \A i \in 1..(Len(rpcs) - 1) :
              \/ Stage(rpcs[i]) < Stage(rpcs[i + 1])
              \/ Stage(rpcs[i]) = 4 /\ Stage(rpcs[i + 1]) = 4
        /\ SelectSeq(rpcs, LAMBDA r : Stage(r) = 4) \in MiddleRuns
        /\ Has(rpcs, {"rollback", "commit", "commit_check"}) => Has(rpcs, {"load"}) /\ Has(rpcs, {"diff"})
        /\ session = "closed" => rpcs[Len(rpcs)] = "close"

\* C34: like the junos session, the json_rpc session confirms on a retry:
\* when commit() is called with is_retry true and the diff the device reports
\* is empty, a set, confirmed-accept or validate request is sent before
\* commit() returns.
C34_JsonRpcRetryConfirms ==
    (/\ transport = "json_rpc"
     /\ mode = "commit"
     /\ pc = "r_close"
     /\ is_retry(attempt)
     /\ Has(rpcs, {"jr_diff"})
     /\ failure = "none"
     /\ sdiff = EmptyDiff) =>
        Has(rpcs, {"jr_set", "jr_accept", "jr_validate"})

\* C35: every diff or commit attempt opens a new session, on which nothing
\* was sent yet; when _execute goes on to the next attempt or the next device
\* the session of the attempt that ended is not open any more, so at most one
\* session is open at any time; requests are sent only on the open session of
\* the running attempt.
C35_FreshSession ==
    [][/\ (pc' = "callback" \/ (pc = "returned" /\ pc' = "loop")) => session # "open"
       /\ (pc = "callback" /\ mode # "generate") =>
             /\ calls' = calls + 1
             /\ session' \in {"open", "none"}
             /\ rpcs' = <<>>
             /\ closeCalls' = 0
       /\ (rpcs' # rpcs /\ rpcs' # <<>>) => (session = "open" /\ pc \notin {"callback", "returned"})]_vars

\* The session of a second attempt is in use.
C35_Witness == attempt = 2 /\ session = "open" /\ rpcs # <<>> /\ mode # "generate"

\* The lines of a text whose lines end with '\n'; after a trailing newline
\* comes one empty last line.
RECURSIVE Split(_)
Split(s) ==
    IF \A i \in 1..Len(s) : s[i] # NL THEN <<s>>
    ELSE LET i == CHOOSE k \in 1..Len(s) : s[k] = NL /\ \A j \in 1..(k - 1) : s[j] # NL
         IN <<SubSeq(s, 1, i - 1)>> \o Split(SubSeq(s, i + 1, Len(s)))

\* A line without the escape sequence before it and the reset after it.
Unwrap(line) ==
    IF Len(line) >= 2 /\ line[1] \in {"ESC[32m", "ESC[31m", "ESC[33m"} /\ line[Len(line)] = "ESC[39m"
    THEN SubSeq(line, 2, Len(line) - 1)
    ELSE line

Uncolored(s) == join([i \in 1..Len(Split(s)) |-> Unwrap(Split(s)[i])])

\* C36: for a diff text d whose lines end with '\n', color_diff(d) has the
\* lines of d, each one wrapped in ESC[32m, ESC[31m or ESC[33m and ESC[39m when
\* it starts with '+', '-' or '!' and unchanged otherwise; taking the wrapping
\* away gives back d, trailing newline included; color_diff(d) is empty exactly
\* when d is.
C36_ColorOnlyWraps ==
    (pc = "color" /\ colored.called /\ ~InSeq(CR, colored.diff)) =>
        LET d == colored.diff
            out == colored.out
            dl == Split(d)
            ol == Split(out)
        IN /\ Uncolored(out) = d
           /\ Len(ol) = Len(dl)
           /\ \A i \in 1..Len(dl) :
                 ol[i] = IF dl[i] # <<>> /\ dl[i][1] = "+" THEN <<"ESC[32m">> \o dl[i] \o <<"ESC[39m">>
                         ELSE IF dl[i] # <<>> /\ dl[i][1] = "-" THEN <<"ESC[31m">> \o dl[i] \o <<"ESC[39m">>
                         ELSE IF dl[i] # <<>> /\ dl[i][1] = "!" THEN <<"ESC[33m">> \o dl[i] \o <<"ESC[39m">>
                         ELSE dl[i]
           /\ (out = <<>>) <=> (d = <<>>)

\* An added and a removed line, both colored, the trailing newline kept.
C36_Witness ==
    /\ pc = "color"
    /\ colored.called
    /\ colored.diff = <<"+", NL, "-", NL>>
    /\ colored.out = <<"ESC[32m", "+", "ESC[39m", NL, "ESC[31m", "-", "ESC[39m", NL>>

\* A text with another line boundary is not given back: the '\r' is lost.
C36_WitnessOtherBoundary ==
    /\ pc = "color"
    /\ colored.called
    /\ colored.diff = <<"a", CR, "a">>
    /\ colored.out = <<"a", NL, "a">>

\* C37: in a commit run a device recorded as succeeded has no accepted
\* commit-with-confirmation request left without a successful confirming
\* request: when it is recorded the device is not waiting for a confirmation.
C37_SucceededIsConfirmed ==
    (mode = "commit" /\ pc \in {"loop", "done"} /\ idx > 1 /\ InSeq(Last, successes.ok)) =>
        devState # "pending"

\* How many times device d is in the list q; the diff groups d is in.
Occ(d, q) == Cardinality({i \in 1..Len(q) : q[i] = d})

Groups(d) == {k \in DiffKeys : InSeq(d, diffs[k])}

IsPrefix(p, q) == Len(p) <= Len(q) /\ SubSeq(q, 1, Len(p)) = p

\* C38: between two devices and when _execute returns, every device processed
\* so far is exactly once in the succeeded and failed lists together, a device
\* whose callback was called is in exactly one diff group and once in it, one
\* whose rendering failed is in none, and a device not processed yet is in no
\* list; the lists and the groups only grow, so this is what _execute returns
\* for every selected device.
C38_RecordedOnce ==
    /\ []((pc \in {"loop", "done"}) =>
            /\ \A d \in Devs :
                  /\ Occ(d, successes.ok) + Occ(d, successes.failed) = (IF d < idx THEN 1 ELSE 0)
                  /\ Cardinality(Groups(d)) <= (IF d < idx THEN 1 ELSE 0)
                  /\ \A k \in Groups(d) : Occ(d, diffs[k]) = 1
                  /\ InSeq(d, successes.ok) => Cardinality(Groups(d)) = 1
            /\ idx > 1 => Cardinality(Groups(Last)) = (IF calls > 0 THEN 1 ELSE 0)
            /\ pc = "done" => idx = NumDevices + 1)
    /\ [][(successes' # successes \/ diffs' # diffs) =>
             /\ IsPrefix(successes.ok, successes'.ok)
             /\ IsPrefix(successes.failed, successes'.failed)
             /\ \A k \in DiffKeys : IsPrefix(diffs[k], diffs'[k])]_vars

\* _execute returned: the first device succeeded with a diff, the second one
\* used up its attempts and is in the group of the empty diff.
C38_Witness ==
    /\ pc = "done"
    /\ successes = [ok |-> <<1>>, failed |-> <<2>>]
    /\ diffs[EmptyDiff] = <<2>>
    /\ calls = TIMEOUT_ATTEMPTS
    /\ \E k \in DiffKeys \ {EmptyDiff, NoneDiff} : diffs[k] = <<1>>

\* C39: in diff mode every device of the group printed as '# No diff', the
\* group of the empty diff, is in the succeeded list.
C39_NoDiffSucceeded ==
    (mode = "diff" /\ pc = "done") =>
        \A d \in Devs : InSeq(d, diffs[EmptyDiff]) => InSeq(d, successes.ok)

\* generate, diff or commit ended: _execute returned and the exit status is
\* computed, or an exception left it.
Terminated == pc \in {"done", "aborted"}

\* C40: when every transport call and every prompt returns or raises, the run
\* ends; no device has more than TIMEOUT_ATTEMPTS callback invocations, the
\* invocations of a device are counted from 0 when its turn starts and one by
\* one, and the devices are taken one after the other, each once, so that N
\* devices have at most 3 N invocations.
C40_Terminates ==
    /\ <>Terminated
    /\ [](calls <= TIMEOUT_ATTEMPTS /\ idx <= NumDevices + 1 /\ (pc = "callback" => idx <= NumDevices))
    /\ [][/\ idx' \in {idx, idx + 1}
          /\ calls' # calls => \/ calls' = calls + 1 /\ pc = "callback" /\ idx' = idx
                               \/ calls' = 0 /\ pc = "loop"
          /\ (pc = "loop" /\ pc' = "callback") => (calls' = 0 /\ idx' = idx)
          /\ (pc = "returned" /\ pc' = "callback") => (idx' = idx /\ calls < TIMEOUT_ATTEMPTS)
          /\ (pc = "returned" /\ pc' = "loop") => idx' = idx + 1]_vars

\* A run that ended after the last device used all its attempts.
C40_Witness == pc = "done" /\ calls = TIMEOUT_ATTEMPTS /\ idx = NumDevices + 1

=============================================================================
